---- MODULE Spec2Model ----
(***************************************************************************)
(* gridiron: the task coordinator (src/src/automaton.rs, coordinate) run   *)
(* by every peer of a group over the TCP communicator                      *)
(* (src/src/message/tcp.rs: TcpCommunicator and its ConnectionPool with a  *)
(* background sender thread and a background receiver thread).             *)
(***************************************************************************)
EXTENDS Integers, Sequences, FiniteSets, Bags, TLC

\* Largest number of tasks in a group, and number of stages each peer runs.
NumTasks == 4
NumStages == 2

\* The processes that can be peers: a group of size n has the ranks 0 .. n-1.
Peers == {0, 1, 2}
\* The keys a task or a destination can have.
Keys == 0 .. (NumTasks - 1)

VARIABLES
    grp,          \* the task group: what the user's Automaton and work function return
    pc,           \* pc[p]: where peer p's call of coordinate is
    done,         \* done[p]: number of calls of coordinate that returned on peer p
    flow,         \* flow[p]: the tasks the flow iterator of peer p has yet to yield
    seen,         \* seen[p]: keys of the map `seen` of coordinate
    undelivered,  \* undelivered[p][k]: the Vec stored for key k in the map `undelivered`
    inbox,        \* inbox[k]: the messages task k has taken in receive, in call order
    emitted,      \* emitted[p][k]: times p handed task k to its sink in the current stage
    time_stamp,   \* time_stamp[p]: TcpCommunicator.time_stamp
    tcpUndelivered, \* tcpUndelivered[p]: TcpCommunicator.undelivered
    send_r,       \* send_r[p]: the channel from ConnectionPool::send to the sender thread
    recv_r,       \* recv_r[p]: the channel from the receiver thread to ConnectionPool::recv
    outStreams,   \* outStreams[p]: addresses the sender thread holds a TcpStream to
    backlog,      \* backlog[p]: connections made to p's listener, not yet accepted
    inStreams,    \* inStreams[p]: the receiver thread's accepted streams, in accept order
    wire,         \* wire[<<p, q>>]: records written by p to its stream to q, unread by q
    sendLog,      \* bag of the calls of Communicator::send, with the stamp at the call
    wrote,        \* wrote[p][t]: records with tag t that p's sender thread has written
    lastRecv,     \* lastRecv[p]: what the last return of Communicator::recv gave, and when
    pulls,        \* pulls[p]: records p took from ConnectionPool::recv in the current stage
    recvCalls,    \* recvCalls[p]: calls of Communicator::recv by p in the current stage
    messagesCalls, \* messagesCalls[k]: the calls of messages() on task k in the current
                  \* stage, and those of them made with k in seen or handed to the sink
    comm          \* the Communicator given to coordinate: "tcp" or "null"

\* One connection at the level of bytes (framing of the records).
VARIABLES
    framesSent,   \* the (message, tag) records given to the sender thread for one address
    toWrite,      \* those the sender thread has yet to write
    writeStep,    \* how many of the three write_all calls for the head of toWrite are done
    stream,       \* the bytes written to the connection and not yet read
    field,        \* what the receiver thread is reading: "none", "len", "tag" or "body"
    buffer,       \* the bytes of that field read so far
    lenRead,      \* the len read for the current record
    tagRead,      \* the tag read for the current record
    polled,       \* the channel from the receiver thread to ConnectionPool::recv
    received,     \* what ConnectionPool::recv has returned, in order
    nonBlocking   \* the last call of read_usize_non_blocking: "None" or "Some" as it
                  \* returned, "reading" while it is in the loop of read_bytes_into

frameVars == << framesSent, toWrite, writeStep, stream, field, buffer, lenRead, tagRead,
                polled, received, nonBlocking >>

\* The sender side of a pool with its sender threads (tcp_v3.rs: one, or one per socket).
VARIABLES
    mode,         \* SendThreads: "Single" or "OnePerSocket"
    sendChan,     \* the channel send_r, from ConnectionPool::send to the sender thread
    channels,     \* channels[a]: the channel to the thread of the socket to address a
    sockets,      \* the addresses a thread has been spawned for
    written,      \* written[a]: the records written to the connection to a, in order
    calls         \* calls[a]: the records of the calls send(a, ..), in call order

orderVars == << mode, sendChan, channels, sockets, written, calls >>

\* Failures of the transport.
VARIABLES
    dead,         \* the peers whose process has died
    senderDown    \* the peers whose sender thread has panicked on a failed write

failVars == << dead, senderDown >>

\* A ThreadPool and its worker threads.
VARIABLES
    pool,         \* the ThreadPool value: "none", "up", "panicked", "dropping", "dropped"
    workers,      \* workers[i]: which of the fields sender and handle of Worker i are Some
    current_worker_id, \* ThreadPool.current_worker_id
    receiver,     \* receiver[i]: the jobs in the channel of worker i, in order
    thread,       \* thread[i]: whether the thread of worker i is "running" or "exited"
    ran,          \* ran[i]: the jobs the thread of worker i has run, in order
    spawned,      \* the calls of spawn_on so far, in call order: the worker_id given,
                  \* and whether the job was sent to a worker
    dropping      \* the index in the Vec of the worker whose drop is running or is next

poolVars == << pool, workers, current_worker_id, receiver, thread, ran, spawned, dropping >>

\* What ThreadPool::new is given: its argument, the machine and the build.
VARIABLES
    requested,    \* the argument num_threads of the call of ThreadPool::new
    core_ids,     \* the number of core ids that get_core_ids() returns on this machine
    core_affinity \* whether the crate is built with the feature "core_affinity"

newVars == << requested, core_ids, core_affinity >>

\* One ConnectionPool from from_listener to the end of its drop, with one remote peer.
VARIABLES
    alive,        \* ConnectionPool.alive
    send_s,       \* whether ConnectionPool.send_s is Some: the channel to the sender thread
    queued,       \* the number of records in that channel
    send_thread,  \* the sender thread: "running", "exited" or "panicked"
    recv_thread,  \* the receiver thread: "test" (at the while condition), "poll",
                  \* "read" (in the read loops of a record it has begun) or "exited"
    incoming,     \* the stream from the remote peer: "empty", "partial" (the first
                  \* bytes of a record) or "whole" (a record)
    arrived,      \* the number of records the remote peer has begun to write
    remote,       \* the remote peer's process: "up" or "dead"
    dropStep,     \* Drop for ConnectionPool: "live", "join_send", "join_recv",
                  \* "returned" or "panicked"
    sends,        \* the number of records that ConnectionPool::send has put in the channel
    writes        \* the number of records whose three write_all have returned Ok

closeVars == << alive, send_s, queued, send_thread, recv_thread, incoming, arrived,
                remote, dropStep, sends, writes >>

\* One call of an executor (execute, execute_thread_pool or execute_comm) and the
\* iterator it returns.
VARIABLES
    executor,     \* the function called
    call,         \* the call: "coordinate" (in coordinate), "returned" or "panicked"
    sunk,         \* the number of calls of sink so far; the task of call j is task j
    eligible,     \* the channel (eligible_sink, eligible_source): its items in order,
                  \* each the value of a task (value TRUE) or the task itself (FALSE)
    valued,       \* the calls of value() in order: the task, and where it was called:
                  \* "sink", "worker" or "iterator"
    yielded,      \* the tasks whose values the returned iterator has yielded, in order
    iter          \* the returned iterator: "none", "open" or "ended" (it gave None)

execVars == << executor, call, sunk, eligible, valued, yielded, iter >>

\* One call of a function of the module meshing.
VARIABLES
    function,     \* the function called: "block_dims", "prime_factors" or
                  \* "integer_square_root"
    args,         \* the arguments: count (n for the other two) and num_dims
    outcome       \* the call: status "none" (not made yet), "returned" or "panicked",
                  \* and the Vec returned

meshVars == << function, args, outcome >>

\* The loop over flow of one call of coordinate, task by task, on a peer that owns
\* every key, with a flow that may yield a key more than once.
VARIABLES
    loop,         \* the locals of coordinate, seen and undelivered, and what has
                  \* become of the tasks and messages: sunk (the tasks handed to the
                  \* sink), lost (the tasks dropped), unread (the messages dropped
                  \* without a call of receive), last (the task drawn last and the
                  \* messages it found stored), keys (the keys drawn)
    loopPc        \* "off", "loop", "drain" (the assertion passed) or "panicked"

loopVars == << loop, loopPc >>

\* One TcpCommunicator under any sequence of calls of recv and next_time_stamp.
VARIABLES
    communicator  \* its fields time_stamp and undelivered; incoming, the records that
                  \* its ConnectionPool holds ready for recv; call, "idle" or "loop"
                  \* (inside the loop of recv); and the records pulled from the pool
                  \* and the records returned by recv, in order

commVars == << communicator >>

\* The variables of the parts of the crate modelled further down.
later == << newVars, closeVars, execVars, meshVars, loopVars, commVars >>

\* The variables that no step of the coordinator or of the threads of its pool touches.
aside == << frameVars, orderVars, failVars, poolVars, later >>
\* The variables that no step on the framed connection touches.
frameAside == << orderVars, failVars, poolVars, later >>
\* The variables that no step of the sender threads touches.
orderAside == << frameVars, failVars, poolVars, later >>
\* The variables that no step of a thread pool touches.
poolAside == << frameVars, orderVars, failVars, later >>

vars == << grp, pc, done, flow, seen, undelivered, inbox, emitted, time_stamp,
           tcpUndelivered, send_r, recv_r, outStreams, backlog, inStreams, wire,
           sendLog, wrote, lastRecv, pulls, recvCalls, messagesCalls, comm >>

----------------------------------------------------------------------------
(* The task group: the user's side of the Automaton trait. *)

\* Task k's messages(): one message to each key of a fixed list.
Ring(n, s) == [k \in Keys |-> IF k < n THEN << (k + s) % n >> ELSE << >>]
\* Every task but task 0 sends one message to task 0.
FanIn(n) == [k \in Keys |-> IF 0 < k /\ k < n THEN << 0 >> ELSE << >>]
\* No task sends anything.
Silent == [k \in Keys |-> << >>]

RECURSIVE CountIn(_, _, _)
CountIn(seq, k, i) ==
    IF i > Len(seq) THEN 0
    ELSE (IF seq[i] = k THEN 1 ELSE 0) + CountIn(seq, k, i + 1)

RECURSIVE SumIn(_, _, _)
SumIn(dests, k, src) ==
    IF src \notin Keys THEN 0
    ELSE CountIn(dests[src], k, 1) + SumIn(dests, k, src + 1)

\* Number of messages the tasks of the group address to key k in one stage.
Indeg(dests, k) == SumIn(dests, k, 0)

\* The work functions: every key to rank 0 (as in execute), or key k to rank k % size.
WorkZero(size) == [k \in Keys |-> 0]
WorkMod(size) == [k \in Keys |-> k % size]
\* Two peers under either, and three peers with one task each.
Works(n) ==
    {[size |-> 2, work |-> WorkZero(2)], [size |-> 2, work |-> WorkMod(2)]}
    \cup (IF n <= 3 THEN {[size |-> 3, work |-> WorkMod(3)]} ELSE {})

Topologies(n) ==
    {Ring(n, s) : s \in 1 .. (n - 1)} \cup {Silent} \cup (IF n >= 3 THEN {FanIn(n)} ELSE {})

\* A group whose tasks follow the contract of the trait: receive reports Eligible on the
\* last message addressed to the task, a task nobody writes to is independent.
Conforming(n, d, w) ==
    [n |-> n, dests |-> d, size |-> w.size, work |-> w.work,
     need |-> [k \in Keys |-> Indeg(d, k)],
     indep |-> [k \in Keys |-> Indeg(d, k) = 0]]

\* The same groups with one task off the contract.
Early(g) == [g EXCEPT !.need[0] = 1]
Hungry(g) == [g EXCEPT !.need[0] = @ + 1, !.indep[0] = FALSE]
Aloof(g) == [g EXCEPT !.indep[0] = TRUE]
Stray(g) == [g EXCEPT !.dests[0] = << g.n % NumTasks >>]

Groups ==
    LET good == UNION {{Conforming(n, d, w) : d \in Topologies(n), w \in Works(n)} :
                       n \in 1 .. NumTasks}
    IN  good \cup {Early(g) : g \in good} \cup {Hungry(g) : g \in good}
             \cup {Aloof(g) : g \in good} \cup {Stray(g) : g \in good}

\* The tasks the caller of peer p puts in its flow: those the work function gives to p.
Owned(p) == {k \in Keys : k < grp.n /\ grp.work[k] = p}

----------------------------------------------------------------------------
(* Coder: an opaque encoding of a (key, message) pair. *)

Encode(dest, data) == [key |-> dest, body |-> data]
Decode(bytes) == << bytes.key, bytes.body >>

----------------------------------------------------------------------------
(* Automaton::receive of the modelled tasks: store the message, report Eligible once *)
(* the number of stored messages has reached the task's need.                        *)

Receive(box, data) == Append(box, data)
IsEligible(k, box) == Len(box) >= grp.need[k]

----------------------------------------------------------------------------
(* TcpCommunicator and ConnectionPool, the calling side. *)

\* As HasRoom, for a channel made by mpsc::sync_channel(1), whose send waits for room.
HasRoomForOne(chan) == Len(chan) <= 1

\* Whether Sender::send can put its value on the channel without waiting: send_s is
\* made by mpsc::channel(), whose buffer has no bound.
HasRoom(chan) == Len(chan) >= 0

\* As PoolSend, for a pool that loses what it is given.
PoolSendLost(chan, peer, message, tag) == chan

\* ConnectionPool::send: put (peer, message, tag) on the channel of the sender thread.
PoolSend(chan, peer, message, tag) ==
    Append(chan, [address |-> peer, message |-> message, tag |-> tag])

\* TcpCommunicator::send: tag the message with the current stamp.
TcpSend(p, chan, rank, message) == PoolSend(chan, rank, message, time_stamp[p])

\* As Position, with the test on the tag inverted.
RECURSIVE PositionOther(_, _, _)
PositionOther(queue, stamp, i) ==
    IF i > Len(queue) THEN 0
    ELSE IF queue[i].tag # stamp THEN i
    ELSE PositionOther(queue, stamp, i + 1)

\* undelivered.iter().position(|(_, tag)| tag == &self.time_stamp): 0 for None.
RECURSIVE Position(_, _, _)
Position(queue, stamp, i) ==
    IF i > Len(queue) THEN 0
    ELSE IF queue[i].tag = stamp THEN i
    ELSE Position(queue, stamp, i + 1)

\* As RemoveAt, for a queue that keeps the element.
RemoveNone(queue, i) == SubSeq(queue, 1, i) \o SubSeq(queue, i + 1, Len(queue))

\* Vec::remove(index)
RemoveAt(queue, i) == SubSeq(queue, 1, i - 1) \o SubSeq(queue, i + 1, Len(queue))

\* As TagDiffers, for a recv that returns whatever the pool yields.
TagIgnored(tag, stamp) == FALSE

\* The test `tag != self.time_stamp` of TcpCommunicator::recv.
TagDiffers(tag, stamp) == tag # stamp

\* As NextTimeStamp, with the increment left out.
NextTimeStampSame(stamp) == stamp

\* TcpCommunicator::next_time_stamp
NextTimeStamp(stamp) == stamp + 1

----------------------------------------------------------------------------
(* coordinate: the loop over flow. *)

\* As DeliverSeen, with the Status that receive returns ignored: the task goes to the
\* sink on its first message.
DeliverSeenAnyStatus(s, dest, data) ==
    [s EXCEPT !.inbox[dest] = Receive(@, data), !.seen = @ \ {dest},
              !.emitted[dest] = @ + 1]

\* Entry::Occupied: the task in seen receives the message, and goes to the sink if the
\* call made it eligible. s holds seen and emitted of the peer, and the tasks' inbox.
DeliverSeen(s, dest, data) ==
    LET box == Receive(s.inbox[dest], data)
    IN  IF IsEligible(dest, box)
        THEN [s EXCEPT !.inbox[dest] = box, !.seen = @ \ {dest}, !.emitted[dest] = @ + 1]
        ELSE [s EXCEPT !.inbox[dest] = box]

\* As RouteOne, without the test of work(&dest) against the rank: every message is sent.
RouteOneAllSent(p, s, dest, data) ==
    [s EXCEPT !.chan = TcpSend(p, @, grp.work[dest], Encode(dest, data)),
              !.log = @ (+) SetToBag({[from |-> p, to |-> grp.work[dest],
                                       bytes |-> Encode(dest, data),
                                       stamp |-> time_stamp[p]]})]

\* As RouteOne, without the look-up in seen: a local message always goes to undelivered.
RouteOneNoSeen(p, s, dest, data) ==
    IF grp.work[dest] = p
    THEN [s EXCEPT !.und[dest] = Append(@, data)]
    ELSE [s EXCEPT !.chan = TcpSend(p, @, grp.work[dest], Encode(dest, data)),
                   !.log = @ (+) SetToBag({[from |-> p, to |-> grp.work[dest],
                                            bytes |-> Encode(dest, data),
                                            stamp |-> time_stamp[p]]})]

\* One (dest, data) of a.messages(): local to seen or to undelivered, remote to send.
RouteOne(p, s, dest, data) ==
    IF grp.work[dest] = p
    THEN IF dest \in s.seen
         THEN DeliverSeen(s, dest, data)
         ELSE [s EXCEPT !.und[dest] = Append(@, data)]
    ELSE [s EXCEPT !.chan = TcpSend(p, @, grp.work[dest], Encode(dest, data)),
                   !.log = @ (+) SetToBag({[from |-> p, to |-> grp.work[dest],
                                            bytes |-> Encode(dest, data),
                                            stamp |-> time_stamp[p]]})]

RECURSIVE RouteAll(_, _, _, _)
RouteAll(p, k, i, s) ==
    IF i > Len(grp.dests[k]) THEN s
    ELSE RouteAll(p, k, i + 1,
                  RouteOne(p, s, grp.dests[k][i], [src |-> k, i |-> i, st |-> done[p]]))

\* messages.into_iter().any(|m| a.receive(m).is_eligible()): stops at the first Eligible.
RECURSIVE TakeStored(_, _, _)
TakeStored(k, box, messages) ==
    IF messages = << >> THEN [box |-> box, eligible |-> FALSE]
    ELSE LET b == Receive(box, Head(messages))
         IN  IF IsEligible(k, b) THEN [box |-> b, eligible |-> TRUE]
             ELSE TakeStored(k, b, Tail(messages))

\* As CallMessages, for a coordinate that asks the task for its messages twice.
CallMessagesTwice(p, k, s) ==
    LET s1 == RouteAll(p, k, 1, s)
    IN  [RouteAll(p, k, 1, s1) EXCEPT !.asked[k] = [calls |-> @.calls + 2, late |-> @.late]]

\* `for (dest, data) in a.messages()`: the one call of messages() on task k, made on
\* the task as flow yields it, and the routing of what it returns.
CallMessages(p, k, s) ==
    [RouteAll(p, k, 1, s) EXCEPT
        !.asked[k] = [calls |-> @.calls + 1,
                      late  |-> @.late + (IF k \in s.seen \/ s.emitted[k] > 0 THEN 1 ELSE 0)]]

\* As AfterTask, without the test of a.independent(): only messages make a task
\* eligible.
AfterTaskNoIndependent(p, k, s) ==
    LET s1 == CallMessages(p, k, s)
        t  == TakeStored(k, s1.inbox[k], s1.und[k])
        s2 == [s1 EXCEPT !.und[k] = << >>, !.inbox[k] = t.box]
    IN  IF t.eligible
        THEN [s2 EXCEPT !.emitted[k] = @ + 1]
        ELSE [s2 EXCEPT !.seen = @ \cup {k}]

\* As AfterTask, with seen.insert left out: a task that is not eligible is dropped.
AfterTaskNoInsert(p, k, s) ==
    LET s1 == CallMessages(p, k, s)
        t  == TakeStored(k, s1.inbox[k], s1.und[k])
        s2 == [s1 EXCEPT !.und[k] = << >>, !.inbox[k] = t.box]
    IN  IF t.eligible \/ grp.indep[k]
        THEN [s2 EXCEPT !.emitted[k] = @ + 1]
        ELSE s2

\* The body of `for mut a in flow` for task k, from state s of the peer.
AfterTask(p, k, s) ==
    LET s1 == CallMessages(p, k, s)
        t  == TakeStored(k, s1.inbox[k], s1.und[k])
        s2 == [s1 EXCEPT !.und[k] = << >>, !.inbox[k] = t.box]
    IN  IF t.eligible \/ grp.indep[k]
        THEN [s2 EXCEPT !.emitted[k] = @ + 1]
        ELSE [s2 EXCEPT !.seen = @ \cup {k}]

\* The whole loop, flow yielding the tasks in the given order.
RECURSIVE AfterFlow(_, _, _)
AfterFlow(p, order, s) ==
    IF order = << >> THEN s
    ELSE CHOOSE r \in {AfterFlow(p, Tail(order), s1) : s1 \in {AfterTask(p, Head(order), s)}} :
             TRUE

\* The orders in which a flow can yield the tasks of a set.
Orders(S) == {o \in [1 .. Cardinality(S) -> S] : \A i, j \in DOMAIN o : i # j => o[i] # o[j]}

\* As UndeliveredIsEmpty, for a coordinate without the assertion.
UndeliveredUnchecked(und) == TRUE

\* undelivered.is_empty()
UndeliveredIsEmpty(und) == \A k \in Keys : und[k] = << >>

\* NullCommunicator::send is unimplemented!(): a coordinate that sends on it panics.
NullSendPanics(log) == comm = "null" /\ log # sendLog

\* coordinate from its start to the end of the loop over flow, which blocks nowhere:
\* seen and undelivered start as new maps, every task of flow is routed, then
\* assert!(undelivered.is_empty()).
RunFlow(p, order) ==
    /\ pc[p] = "flow"
    /\ order \in Orders(flow[p])
    /\ \E s \in {AfterFlow(p, order,
                           [seen |-> {}, und |-> [k \in Keys |-> << >>],
                            inbox |-> inbox, emitted |-> emitted[p],
                            chan |-> send_r[p], log |-> sendLog,
                            asked |-> messagesCalls])} :
           /\ HasRoom(s.chan)
           /\ seen' = [seen EXCEPT ![p] = s.seen]
           /\ undelivered' = [undelivered EXCEPT ![p] = s.und]
           /\ inbox' = s.inbox
           /\ emitted' = [emitted EXCEPT ![p] = s.emitted]
           /\ send_r' = [send_r EXCEPT ![p] = s.chan]
           /\ sendLog' = s.log
           /\ messagesCalls' = s.asked
           /\ pc' = [pc EXCEPT ![p] = IF NullSendPanics(s.log) THEN "panicked"
                                      ELSE IF UndeliveredIsEmpty(s.und) THEN "drain"
                                      ELSE "panicked"]
    /\ flow' = [flow EXCEPT ![p] = {}]
    /\ UNCHANGED << grp, done, time_stamp, tcpUndelivered, recv_r, outStreams,
                    backlog, inStreams, wire, wrote, lastRecv, pulls, recvCalls, comm >>
    /\ UNCHANGED aside

Coordinate(p) == \E order \in Orders(flow[p]) : RunFlow(p, order)

----------------------------------------------------------------------------
(* coordinate: the loop `while !seen.is_empty()`. *)

\* As Absorb, with a message for a key that is not in seen dropped, and the loop going on.
AbsorbOrDrop(p, bytes, at) ==
    LET dest == Decode(bytes)[1]
        data == Decode(bytes)[2]
    IN  /\ lastRecv' = [lastRecv EXCEPT ![p] = << [bytes |-> bytes, at |-> at] >>]
        /\ IF dest \in seen[p]
           THEN LET s == DeliverSeen([seen |-> seen[p], inbox |-> inbox,
                                      emitted |-> emitted[p]], dest, data)
                IN  /\ seen' = [seen EXCEPT ![p] = s.seen]
                    /\ inbox' = s.inbox
                    /\ emitted' = [emitted EXCEPT ![p] = s.emitted]
                    /\ pc' = [pc EXCEPT ![p] = "drain"]
           ELSE /\ pc' = [pc EXCEPT ![p] = "drain"]
                /\ UNCHANGED << seen, inbox, emitted >>

\* The body of the loop once comm.recv() has returned bytes: decode, then the task in
\* seen receives, or the stage panics on Entry::Vacant.
Absorb(p, bytes, at) ==
    LET dest == Decode(bytes)[1]
        data == Decode(bytes)[2]
    IN  /\ lastRecv' = [lastRecv EXCEPT ![p] = << [bytes |-> bytes, at |-> at] >>]
        /\ IF dest \in seen[p]
           THEN LET s == DeliverSeen([seen |-> seen[p], inbox |-> inbox,
                                      emitted |-> emitted[p]], dest, data)
                IN  /\ seen' = [seen EXCEPT ![p] = s.seen]
                    /\ inbox' = s.inbox
                    /\ emitted' = [emitted EXCEPT ![p] = s.emitted]
                    /\ pc' = [pc EXCEPT ![p] = "drain"]
           ELSE /\ pc' = [pc EXCEPT ![p] = "panicked"]
                /\ UNCHANGED << seen, inbox, emitted >>

\* TcpCommunicator::recv finds a record of the current stamp in its undelivered queue.
RecvParked(p) ==
    /\ comm = "tcp"
    /\ pc[p] = "drain"
    /\ seen[p] # {}
    /\ LET index == Position(tcpUndelivered[p], time_stamp[p], 1)
       IN  /\ index # 0
           /\ tcpUndelivered' = [tcpUndelivered EXCEPT ![p] = RemoveAt(@, index)]
           /\ Absorb(p, tcpUndelivered[p][index].message, time_stamp[p])
    /\ recvCalls' = [recvCalls EXCEPT ![p] = @ + 1]
    /\ UNCHANGED << grp, done, flow, undelivered, time_stamp, send_r, recv_r, outStreams,
                    backlog, inStreams, wire, sendLog, wrote, pulls,
                    messagesCalls, comm >>
    /\ UNCHANGED aside

\* TcpCommunicator::recv finds none and enters `loop { connections.recv() ... }`.
RecvBlock(p) ==
    /\ comm = "tcp"
    /\ pc[p] = "drain"
    /\ seen[p] # {}
    /\ Position(tcpUndelivered[p], time_stamp[p], 1) = 0
    /\ pc' = [pc EXCEPT ![p] = "recv"]
    /\ recvCalls' = [recvCalls EXCEPT ![p] = @ + 1]
    /\ UNCHANGED << grp, done, flow, seen, undelivered, inbox, emitted, time_stamp,
                    tcpUndelivered, send_r, recv_r, outStreams, backlog, inStreams, wire,
                    sendLog, wrote, lastRecv, pulls,
                    messagesCalls, comm >>
    /\ UNCHANGED aside

\* One turn of the loop: ConnectionPool::recv yields a record; it is parked if its tag
\* is not the stamp, and returned to coordinate otherwise.
RecvPull(p) ==
    /\ pc[p] = "recv"
    /\ recv_r[p] # << >>
    /\ recv_r' = [recv_r EXCEPT ![p] = Tail(@)]
    /\ pulls' = [pulls EXCEPT ![p] = @ + 1]
    /\ LET rec == Head(recv_r[p])
       IN  IF TagDiffers(rec.tag, time_stamp[p])
           THEN /\ tcpUndelivered' = [tcpUndelivered EXCEPT ![p] = Append(@, rec)]
                /\ UNCHANGED << pc, seen, inbox, emitted, lastRecv >>
           ELSE /\ Absorb(p, rec.message, time_stamp[p])
                /\ UNCHANGED tcpUndelivered
    /\ UNCHANGED << grp, done, flow, undelivered, time_stamp, send_r, outStreams,
                    backlog, inStreams, wire, sendLog, wrote, recvCalls,
                    messagesCalls, comm >>
    /\ UNCHANGED aside

\* As NullRecv, for a null communicator whose recv waits for a message, as a real one
\* does.
NullRecvWaits(p) == [pc EXCEPT ![p] = "recv"]

\* NullCommunicator::recv is unimplemented!(): the call panics.
NullRecv(p) == [pc EXCEPT ![p] = "panicked"]

\* The drain loop of a coordinate that was given the null communicator: comm.recv().
RecvNull(p) ==
    /\ comm = "null"
    /\ pc[p] = "drain"
    /\ seen[p] # {}
    /\ pc' = NullRecv(p)
    /\ recvCalls' = [recvCalls EXCEPT ![p] = @ + 1]
    /\ UNCHANGED << grp, done, flow, seen, undelivered, inbox, emitted, time_stamp,
                    tcpUndelivered, send_r, recv_r, outStreams, backlog, inStreams, wire,
                    sendLog, wrote, lastRecv, pulls, messagesCalls, comm >>
    /\ UNCHANGED aside

\* seen is empty: comm.next_time_stamp(), which does nothing on the null communicator,
\* and coordinate returns.
DrainDone(p) ==
    /\ pc[p] = "drain"
    /\ seen[p] = {}
    /\ time_stamp' = [time_stamp EXCEPT ![p] = IF comm = "null" THEN @
                                               ELSE NextTimeStamp(@)]
    /\ done' = [done EXCEPT ![p] = @ + 1]
    /\ pc' = [pc EXCEPT ![p] = "returned"]
    /\ UNCHANGED << grp, flow, seen, undelivered, inbox, emitted, tcpUndelivered, send_r,
                    recv_r, outStreams, backlog, inStreams, wire, sendLog, wrote,
                    lastRecv, pulls, recvCalls,
                    messagesCalls, comm >>
    /\ UNCHANGED aside

\* The caller runs the next stage: the same tasks again, with nothing received yet.
StartStage(p) ==
    /\ pc[p] = "returned"
    /\ done[p] < NumStages
    /\ pc' = [pc EXCEPT ![p] = "flow"]
    /\ flow' = [flow EXCEPT ![p] = Owned(p)]
    /\ inbox' = [k \in Keys |-> IF k \in Owned(p) THEN << >> ELSE inbox[k]]
    /\ emitted' = [emitted EXCEPT ![p] = [k \in Keys |-> 0]]
    /\ lastRecv' = [lastRecv EXCEPT ![p] = << >>]
    /\ pulls' = [pulls EXCEPT ![p] = 0]
    /\ recvCalls' = [recvCalls EXCEPT ![p] = 0]
    /\ messagesCalls' = [k \in Keys |-> IF k \in Owned(p) THEN [calls |-> 0, late |-> 0]
                                        ELSE messagesCalls[k]]
    /\ UNCHANGED << grp, done, seen, undelivered, time_stamp, tcpUndelivered, send_r,
                    recv_r, outStreams, backlog, inStreams, wire, sendLog, wrote, comm >>
    /\ UNCHANGED aside

----------------------------------------------------------------------------
(* ConnectionPool: the background threads. *)

\* As WireRecord, for a sender thread that tags with the stamp at the time it writes.
WireRecordStampedLate(p, m) == [message |-> m.message, tag |-> time_stamp[p]]

\* What the sender thread writes for (address, message, tag): len, tag, message. The
\* length is that of the message, and is not kept apart here.
WireRecord(p, m) == [message |-> m.message, tag |-> m.tag]

\* One turn of the sender thread's `for (address, message, tag) in send_r`: connect on
\* the first record for the address, then write len, tag and message to the stream.
SendThread(p) ==
    /\ send_r[p] # << >>
    /\ LET m == Head(send_r[p])
       IN  /\ outStreams' = [outStreams EXCEPT ![p] = @ \cup {m.address}]
           /\ backlog' = IF m.address \in outStreams[p] THEN backlog
                         ELSE [backlog EXCEPT ![m.address] = Append(@, p)]
           /\ wire' = [wire EXCEPT ![<< p, m.address >>] = Append(@, WireRecord(p, m))]
           /\ wrote' = [wrote EXCEPT ![p][WireRecord(p, m).tag] = @ + 1]
    /\ send_r' = [send_r EXCEPT ![p] = Tail(@)]
    /\ UNCHANGED << grp, pc, done, flow, seen, undelivered, inbox, emitted, time_stamp,
                    tcpUndelivered, recv_r, inStreams, sendLog, lastRecv, pulls, recvCalls,
                    messagesCalls, comm >>
    /\ UNCHANGED aside

\* The receiver thread polls an accepted stream that has a record to read, and puts
\* the record on the channel of ConnectionPool::recv.
RecvThreadPoll(q, i) ==
    /\ i \in 1 .. Len(inStreams[q])
    /\ LET from == inStreams[q][i]
       IN  /\ wire[<< from, q >>] # << >>
           /\ recv_r' = [recv_r EXCEPT ![q] = Append(@, Head(wire[<< from, q >>]))]
           /\ wire' = [wire EXCEPT ![<< from, q >>] = Tail(@)]
    /\ UNCHANGED << grp, pc, done, flow, seen, undelivered, inbox, emitted, time_stamp,
                    tcpUndelivered, send_r, outStreams, backlog, inStreams, sendLog,
                    wrote, lastRecv, pulls, recvCalls,
                    messagesCalls, comm >>
    /\ UNCHANGED aside

\* listener.accept() finds a pending connection.
RecvThreadAccept(q) ==
    /\ backlog[q] # << >>
    /\ inStreams' = [inStreams EXCEPT ![q] = Append(@, Head(backlog[q]))]
    /\ backlog' = [backlog EXCEPT ![q] = Tail(@)]
    /\ UNCHANGED << grp, pc, done, flow, seen, undelivered, inbox, emitted, time_stamp,
                    tcpUndelivered, send_r, recv_r, outStreams, wire, sendLog, wrote,
                    lastRecv, pulls, recvCalls,
                    messagesCalls, comm >>
    /\ UNCHANGED aside

----------------------------------------------------------------------------
(* Framing: one connection, from the write_all calls of the sender thread to the *)
(* records that ConnectionPool::recv returns.                                    *)

\* Longest message, and most records, on the connection.
MaxPayload == 1
MaxRecords == 2

\* size_of::<usize>() on the 64-bit targets the crate is built for.
UsizeBytes == 8

PayloadBytes == {0, 255}
Tags == {0, 258}

Payloads == UNION {[1 .. n -> PayloadBytes] : n \in 0 .. MaxPayload}
Records == [message : Payloads, tag : Tags]
RecordSeqs == UNION {[1 .. n -> Records] : n \in 0 .. MaxRecords}

\* usize::to_le_bytes
RECURSIVE LeBytes(_, _)
LeBytes(n, k) == IF k = 0 THEN << >> ELSE << n % 256 >> \o LeBytes(n \div 256, k - 1)
ToLeBytes(n) == LeBytes(n, UsizeBytes)

\* usize::from_le_bytes
RECURSIVE FromLeBytes(_)
FromLeBytes(bytes) ==
    IF bytes = << >> THEN 0 ELSE Head(bytes) + 256 * FromLeBytes(Tail(bytes))

\* As WriteCalls, with the tag written before the len.
WriteCallsTagFirst(rec) == << ToLeBytes(rec.tag), ToLeBytes(Len(rec.message)), rec.message >>

\* The three write_all calls of the sender thread for one record: len, tag, message.
WriteCalls(rec) == << ToLeBytes(Len(rec.message)), ToLeBytes(rec.tag), rec.message >>

FrameIdle ==
    /\ framesSent = << >>
    /\ toWrite = << >>
    /\ writeStep = 0
    /\ stream = << >>
    /\ field = "none"
    /\ buffer = << >>
    /\ lenRead = 0
    /\ tagRead = 0
    /\ polled = << >>
    /\ received = << >>
    /\ nonBlocking = "None"

\* One write_all of the sender thread; after the third, the next record.
WriteAll ==
    /\ toWrite # << >>
    /\ stream' = stream \o WriteCalls(Head(toWrite))[writeStep + 1]
    /\ IF writeStep = 2
       THEN toWrite' = Tail(toWrite) /\ writeStep' = 0
       ELSE toWrite' = toWrite /\ writeStep' = writeStep + 1
    /\ UNCHANGED << framesSent, field, buffer, lenRead, tagRead, polled, received,
                    nonBlocking >>
    /\ UNCHANGED vars
    /\ UNCHANGED frameAside

\* The size of the field being read.
FieldSize(f) == IF f = "body" THEN lenRead ELSE UsizeBytes

\* As NonBlocking, for a read that gives up unless its first read fills the buffer.
NonBlockingWhole(cursor) == IF cursor < UsizeBytes THEN "None" ELSE "Some"

\* read_bytes_into_non_blocking after its first read, which gave cursor bytes: None
\* at once if it gave none, Some (once read_bytes_into has filled the rest) otherwise.
NonBlocking(cursor) == IF cursor = 0 THEN "None" ELSE "Some"

\* One read of c bytes by the receiver thread. With no field begun it is the read of
\* read_bytes_into_non_blocking, which returns None when the read gave no byte;
\* otherwise it is one read of the loop of read_bytes_into. A field that is full is
\* taken, and with the last field the record goes to the channel.
Read(c) ==
    LET f    == IF field = "none" THEN "len" ELSE field
        full == buffer \o SubSeq(stream, 1, c)
    IN  /\ c >= (IF field = "none" THEN 0 ELSE 1)
        /\ c <= Len(stream)
        /\ c <= FieldSize(f) - Len(buffer)
        /\ stream' = SubSeq(stream, c + 1, Len(stream))
        /\ IF field = "none" /\ NonBlocking(c) = "None"
           THEN /\ nonBlocking' = "None"
                /\ UNCHANGED << field, buffer, lenRead, tagRead, polled >>
           ELSE IF Len(full) < FieldSize(f)
           THEN /\ field' = f
                /\ buffer' = full
                /\ nonBlocking' = IF f = "len" THEN "reading" ELSE nonBlocking
                /\ UNCHANGED << lenRead, tagRead, polled >>
           ELSE /\ buffer' = << >>
                /\ IF f = "len"
                   THEN /\ lenRead' = FromLeBytes(full)
                        /\ field' = "tag"
                        /\ nonBlocking' = "Some"
                        /\ UNCHANGED << tagRead, polled >>
                   ELSE IF f = "tag"
                   THEN /\ tagRead' = FromLeBytes(full)
                        /\ IF lenRead = 0
                           THEN /\ polled' = Append(polled, [message |-> << >>,
                                                             tag |-> FromLeBytes(full)])
                                /\ field' = "none"
                           ELSE /\ field' = "body"
                                /\ UNCHANGED polled
                        /\ UNCHANGED << lenRead, nonBlocking >>
                   ELSE /\ polled' = Append(polled, [message |-> full, tag |-> tagRead])
                        /\ field' = "none"
                        /\ UNCHANGED << lenRead, tagRead, nonBlocking >>
        /\ UNCHANGED << framesSent, toWrite, writeStep, received >>
        /\ UNCHANGED vars
        /\ UNCHANGED frameAside

\* ConnectionPool::recv
PoolRecv ==
    /\ polled # << >>
    /\ received' = Append(received, Head(polled))
    /\ polled' = Tail(polled)
    /\ UNCHANGED << framesSent, toWrite, writeStep, stream, field, buffer, lenRead, tagRead,
                    nonBlocking >>
    /\ UNCHANGED vars
    /\ UNCHANGED frameAside

----------------------------------------------------------------------------
(* The sender threads: the single one of tcp.rs, and those of tcp_v3.rs. *)

\* Most calls of ConnectionPool::send.
MaxSends == 4

Addresses == {1, 2}

OrderIdle ==
    /\ mode = "Single"
    /\ sendChan = << >>
    /\ channels = [a \in Addresses |-> << >>]
    /\ sockets = {}
    /\ written = [a \in Addresses |-> << >>]
    /\ calls = [a \in Addresses |-> << >>]

\* Number of calls of send so far.
Sends == Len(calls[1]) + Len(calls[2])

\* ConnectionPool::send(peer, message, tag): the message is the number of the call.
OrderSend(a) ==
    /\ Sends < MaxSends
    /\ sendChan' = Append(sendChan, [address |-> a, message |-> Sends + 1])
    /\ calls' = [calls EXCEPT ![a] = Append(@, Sends + 1)]
    /\ UNCHANGED << mode, channels, sockets, written >>
    /\ UNCHANGED << vars, orderAside >>

\* As NextOf, for a thread spawned for every record instead of one loop over the channel.
AnyOf(chan) == DOMAIN chan

\* `for ... in r`: a thread takes the records of its channel from the front.
NextOf(chan) == IF chan = << >> THEN {} ELSE {1}

\* SendThreads::Single, and the sender thread of tcp.rs: the thread that reads send_r
\* writes the record to the stream of its address.
WriteSingle ==
    /\ mode = "Single"
    /\ \E i \in NextOf(sendChan) :
          /\ written' = [written EXCEPT ![sendChan[i].address] =
                                             Append(@, sendChan[i].message)]
          /\ sendChan' = RemoveAt(sendChan, i)
    /\ UNCHANGED << mode, channels, sockets, calls >>
    /\ UNCHANGED << vars, orderAside >>

\* SendThreads::OnePerSocket: the thread that reads send_r passes the record to the
\* channel of its address, and on Entry::Vacant spawns the thread of that socket.
Forward ==
    /\ mode = "OnePerSocket"
    /\ \E i \in NextOf(sendChan) :
          /\ channels' = [channels EXCEPT ![sendChan[i].address] =
                                               Append(@, sendChan[i].message)]
          /\ sockets' = sockets \cup {sendChan[i].address}
          /\ sendChan' = RemoveAt(sendChan, i)
    /\ UNCHANGED << mode, written, calls >>
    /\ UNCHANGED << vars, orderAside >>

\* The thread of a socket writes a record of its channel.
SocketWrite(a) ==
    /\ a \in sockets
    /\ \E i \in NextOf(channels[a]) :
          /\ written' = [written EXCEPT ![a] = Append(@, channels[a][i])]
          /\ channels' = [channels EXCEPT ![a] = RemoveAt(@, i)]
    /\ UNCHANGED << mode, sendChan, sockets, calls >>
    /\ UNCHANGED << vars, orderAside >>

----------------------------------------------------------------------------
(* A peer dies: what the threads of the other peers' pools then do. *)

NoFailure == dead = {} /\ senderDown = {}

\* The process of peer q ends in the middle of a stage: its threads stop, and what its
\* sender thread had not written is lost. What it wrote can still be read.
Die(q) ==
    /\ dead = {}
    /\ pc[q] \in {"flow", "drain", "recv"}
    /\ dead' = {q}
    /\ pc' = [pc EXCEPT ![q] = "dead"]
    /\ send_r' = [send_r EXCEPT ![q] = << >>]
    /\ UNCHANGED << grp, done, flow, seen, undelivered, inbox, emitted, time_stamp,
                    tcpUndelivered, recv_r, outStreams, backlog, inStreams, wire,
                    sendLog, wrote, lastRecv, pulls, recvCalls,
                    messagesCalls, comm >>
    /\ UNCHANGED << senderDown, frameVars, orderVars, poolVars, later >>

\* The sender thread of p connects or writes to a dead peer and gets an error: the
\* unwrap panics in the thread, which ends and drops send_r with what it holds.
WriteFails(p) ==
    /\ send_r[p] # << >>
    /\ Head(send_r[p]).address \in dead
    /\ senderDown' = senderDown \cup {p}
    /\ send_r' = [send_r EXCEPT ![p] = << >>]
    /\ UNCHANGED << grp, pc, done, flow, seen, undelivered, inbox, emitted, time_stamp,
                    tcpUndelivered, recv_r, outStreams, backlog, inStreams, wire,
                    sendLog, wrote, lastRecv, pulls, recvCalls,
                    messagesCalls, comm >>
    /\ UNCHANGED << dead, frameVars, orderVars, poolVars, later >>

\* The sender thread of p writes to a connection whose other end has died, and the
\* write is accepted by the system: the record is gone.
WriteVoid(p) ==
    /\ send_r[p] # << >>
    /\ Head(send_r[p]).address \in dead
    /\ Head(send_r[p]).address \in outStreams[p]
    /\ send_r' = [send_r EXCEPT ![p] = Tail(@)]
    /\ UNCHANGED << grp, pc, done, flow, seen, undelivered, inbox, emitted, time_stamp,
                    tcpUndelivered, recv_r, outStreams, backlog, inStreams, wire,
                    sendLog, wrote, lastRecv, pulls, recvCalls,
                    messagesCalls, comm >>
    /\ UNCHANGED << dead, senderDown, frameVars, orderVars, poolVars, later >>

\* The task of p has a message for another rank.
SendsAway(p) ==
    \E k \in Owned(p) : \E i \in DOMAIN grp.dests[k] : grp.work[grp.dests[k][i]] # p

\* ConnectionPool::send after the sender thread has ended: the channel is closed, the
\* unwrap panics in the thread that runs coordinate.
SendPanics(p) ==
    /\ pc[p] = "flow"
    /\ p \in senderDown
    /\ SendsAway(p)
    /\ pc' = [pc EXCEPT ![p] = "panicked"]
    /\ flow' = [flow EXCEPT ![p] = {}]
    /\ UNCHANGED << grp, done, seen, undelivered, inbox, emitted, time_stamp,
                    tcpUndelivered, send_r, recv_r, outStreams, backlog, inStreams, wire,
                    sendLog, wrote, lastRecv, pulls, recvCalls,
                    messagesCalls, comm >>
    /\ UNCHANGED aside

----------------------------------------------------------------------------
(* ThreadPool. *)

MaxWorkers == 3
MaxJobs == 5

\* Option<usize>
None == << >>
Some(i) == << i >>

\* No pool has been made.
PoolIdle ==
    /\ pool = "none"
    /\ workers = << >>
    /\ current_worker_id = 0
    /\ receiver = << >>
    /\ thread = << >>
    /\ ran = << >>
    /\ spawned = << >>
    /\ dropping = 0

\* ThreadPool::new has not been called: a machine with one core, the default build.
NewIdle ==
    /\ requested = 0
    /\ core_ids = 1
    /\ core_affinity = FALSE

\* No ConnectionPool of the kind followed to its drop.
CloseIdle ==
    /\ alive = FALSE
    /\ send_s = FALSE
    /\ queued = 0
    /\ send_thread = "exited"
    /\ recv_thread = "exited"
    /\ incoming = "empty"
    /\ arrived = 0
    /\ remote = "up"
    /\ dropStep = "returned"
    /\ sends = 0
    /\ writes = 0

\* No executor has been called.
ExecIdle ==
    /\ executor = "none"
    /\ call = "returned"
    /\ sunk = 0
    /\ eligible = << >>
    /\ valued = << >>
    /\ yielded = << >>
    /\ iter = "none"

\* No function of the module meshing is called.
MeshIdle ==
    /\ function = "block_dims"
    /\ args = [count |-> 1, num_dims |-> 1]
    /\ outcome = [status |-> "none", dims |-> << >>]

\* The flow keys of the loop followed task by task.
FlowKeys == {0, 1}

\* coordinate before its loop: seen and undelivered are new maps.
NewLoop ==
    [seen |-> [k \in FlowKeys |-> << >>], undelivered |-> [k \in FlowKeys |-> << >>],
     sunk |-> << >>, lost |-> << >>, unread |-> << >>, last |-> << >>, keys |-> << >>]

\* No loop is followed task by task.
LoopIdle ==
    /\ loop = NewLoop
    /\ loopPc = "off"

\* TcpCommunicator::new with its pool: stamp 0, nothing undelivered.
NewCommunicator ==
    [time_stamp |-> 0, undelivered |-> << >>, incoming |-> << >>, call |-> "idle",
     pulled |-> << >>, returned |-> << >>]

\* No communicator is followed call by call.
CommIdle == communicator = NewCommunicator

LaterIdle == NewIdle /\ CloseIdle /\ ExecIdle /\ MeshIdle /\ LoopIdle /\ CommIdle

\* The smaller of two numbers.
Min(a, b) == IF a < b THEN a ELSE b

\* The length of the Vec that make_workers(n) collects: with the feature core_affinity
\* one worker for each of the first n core ids, without it one for each of 0..n.
WorkerCount(n, affinity, cores) == IF affinity THEN Min(n, cores) ELSE n

\* ThreadPool::new(n): the workers, each with its channel and its running thread, and
\* the index at 0.
new(n) ==
    /\ pool = "none"
    /\ requested' = n
    /\ pool' = "up"
    /\ \E count \in {WorkerCount(n, core_affinity, core_ids)} :
           /\ workers' = [i \in 0 .. (count - 1) |-> [sender |-> TRUE, handle |-> TRUE]]
           /\ receiver' = [i \in 0 .. (count - 1) |-> << >>]
           /\ thread' = [i \in 0 .. (count - 1) |-> "running"]
           /\ ran' = [i \in 0 .. (count - 1) |-> << >>]
    /\ current_worker_id' = 0
    /\ UNCHANGED << spawned, dropping, core_ids, core_affinity >>
    /\ UNCHANGED << vars, frameVars, orderVars, failVars, closeVars, execVars, meshVars, loopVars, commVars >>

\* ThreadPool::num_threads
num_threads == Cardinality(DOMAIN workers)

\* The worker_id arguments tried: None, every worker, and the first index past the Vec.
Hints == {None} \cup {Some(i) : i \in 0 .. num_threads}

\* As NextWorkerId, for a pool that never advances its index.
NextWorkerIdStays(worker_id, current, n) == current % n

\* As NextWorkerId, for a pool that advances its index on every submission.
NextWorkerIdAlways(worker_id, current, n) == (current + 1) % n

\* As WorkerId, for a pool that takes an index past its workers as a hint only and
\* wraps it onto a worker.
WorkerIdWrapped(worker_id, current) ==
    IF worker_id = None THEN current
    ELSE IF num_threads = 0 THEN worker_id[1]
    ELSE worker_id[1] % num_threads

\* The worker index spawn_on uses: the one given, or current_worker_id.
WorkerId(worker_id, current) == IF worker_id # None THEN worker_id[1] ELSE current

\* The value of current_worker_id after spawn_on: advanced only when no index is given.
NextWorkerId(worker_id, current, n) ==
    IF worker_id # None THEN current ELSE (current + 1) % n

\* ThreadPool::spawn_on. It panics, with nothing sent and the index as it was, on the
\* remainder by zero of a pool without workers and on an index past the end of the Vec.
\* The job is named by the position of its call.
\* The body of ThreadPool::spawn_on: the worker is chosen, the job is sent to it and
\* the index moves on, or the call panics.
SpawnOn(worker_id) ==
    /\ pool = "up"
    /\ Len(spawned) < MaxJobs
    /\ IF (worker_id = None /\ num_threads = 0)
          \/ WorkerId(worker_id, current_worker_id) \notin DOMAIN workers
       THEN /\ pool' = "panicked"
            /\ spawned' = Append(spawned, [worker_id |-> worker_id, sent |-> FALSE])
            /\ UNCHANGED << current_worker_id, receiver >>
       ELSE /\ spawned' = Append(spawned, [worker_id |-> worker_id, sent |-> TRUE])
            /\ current_worker_id' = NextWorkerId(worker_id, current_worker_id, num_threads)
            /\ receiver' = [receiver EXCEPT ![WorkerId(worker_id, current_worker_id)] =
                                Append(@, Len(spawned) + 1)]
            /\ UNCHANGED pool
    /\ UNCHANGED << workers, thread, ran, dropping >>

\* ThreadPool::spawn_on, called on a pool by its owner.
spawn_on(worker_id) ==
    /\ SpawnOn(worker_id)
    /\ UNCHANGED << vars, poolAside >>

\* ThreadPool::spawn
spawn == spawn_on(None)

\* The thread of worker i: `for job in receiver { job() }` takes a job and runs it.
\* As RunJob, for a thread that runs the job at the head of its channel and leaves
\* it there.
RunJobAgain(i) ==
    /\ thread[i] = "running"
    /\ receiver[i] # << >>
    /\ Len(ran[i]) < MaxJobs
    /\ ran' = [ran EXCEPT ![i] = Append(@, Head(receiver[i]))]
    /\ UNCHANGED << pool, workers, current_worker_id, thread, spawned, dropping, receiver >>

RunJob(i) ==
    /\ thread[i] = "running"
    /\ receiver[i] # << >>
    /\ ran' = [ran EXCEPT ![i] = Append(@, Head(receiver[i]))]
    /\ receiver' = [receiver EXCEPT ![i] = Tail(@)]
    /\ UNCHANGED << pool, workers, current_worker_id, thread, spawned, dropping >>

\* The thread of worker i runs a job that touches nothing but its own captures.
WorkerRun(i) ==
    /\ RunJob(i)
    /\ UNCHANGED << vars, poolAside >>

\* The loop ends: the channel is empty and its sender is gone.
WorkerExit(i) ==
    /\ thread[i] = "running"
    /\ receiver[i] = << >>
    /\ ~workers[i].sender
    /\ thread' = [thread EXCEPT ![i] = "exited"]
    /\ UNCHANGED << pool, workers, current_worker_id, receiver, ran, spawned, dropping >>
    /\ UNCHANGED << vars, poolAside >>

\* The pool goes out of scope, in its owner's normal course or while a panic of
\* spawn_on unwinds: the Vec of workers is dropped, element by element from index 0.
DropPool ==
    /\ pool \in {"up", "panicked"}
    /\ pool' = IF num_threads = 0 THEN "dropped" ELSE "dropping"
    /\ dropping' = 0
    /\ UNCHANGED << workers, current_worker_id, receiver, thread, ran, spawned >>
    /\ UNCHANGED << vars, poolAside >>

\* Drop for Worker, first statement: self.sender.take().unwrap() closes the channel.
WorkerDropSender ==
    /\ pool = "dropping"
    /\ workers[dropping].sender
    /\ workers' = [workers EXCEPT ![dropping].sender = FALSE]
    /\ UNCHANGED << pool, current_worker_id, receiver, thread, ran, spawned, dropping >>
    /\ UNCHANGED << vars, poolAside >>

\* As Joinable, for a join that returns while the thread still runs.
JoinableAnytime(i) == thread[i] \in {"running", "exited"}

\* JoinHandle::join returns once the thread has ended.
Joinable(i) == thread[i] = "exited"

\* Drop for Worker, second statement: self.handle.take().unwrap().join().unwrap();
\* then the drop of the next worker starts, or the pool is gone.
WorkerDropJoin ==
    /\ pool = "dropping"
    /\ ~workers[dropping].sender
    /\ workers[dropping].handle
    /\ Joinable(dropping)
    /\ workers' = [workers EXCEPT ![dropping].handle = FALSE]
    /\ dropping' = dropping + 1
    /\ pool' = IF dropping + 1 = num_threads THEN "dropped" ELSE "dropping"
    /\ UNCHANGED << current_worker_id, receiver, thread, ran, spawned >>
    /\ UNCHANGED << vars, poolAside >>

----------------------------------------------------------------------------

Init ==
    /\ grp \in Groups
    /\ pc = [p \in Peers |-> IF p < grp.size THEN "flow" ELSE "off"]
    /\ done = [p \in Peers |-> 0]
    /\ flow = [p \in Peers |-> Owned(p)]
    /\ seen = [p \in Peers |-> {}]
    /\ undelivered = [p \in Peers |-> [k \in Keys |-> << >>]]
    /\ inbox = [k \in Keys |-> << >>]
    /\ emitted = [p \in Peers |-> [k \in Keys |-> 0]]
    /\ time_stamp = [p \in Peers |-> 0]
    /\ tcpUndelivered = [p \in Peers |-> << >>]
    /\ send_r = [p \in Peers |-> << >>]
    /\ recv_r = [p \in Peers |-> << >>]
    /\ outStreams = [p \in Peers |-> {}]
    /\ backlog = [p \in Peers |-> << >>]
    /\ inStreams = [p \in Peers |-> << >>]
    /\ wire = [c \in Peers \X Peers |-> << >>]
    /\ sendLog = EmptyBag
    /\ wrote = [p \in Peers |-> [t \in 0 .. NumStages |-> 0]]
    /\ lastRecv = [p \in Peers |-> << >>]
    /\ pulls = [p \in Peers |-> 0]
    /\ recvCalls = [p \in Peers |-> 0]
    /\ messagesCalls = [k \in Keys |-> [calls |-> 0, late |-> 0]]
    /\ comm = "tcp"
    /\ FrameIdle
    /\ OrderIdle
    /\ NoFailure
    /\ PoolIdle
    /\ LaterIdle

Next ==
    \/ \E p \in Peers : Coordinate(p)
    \/ \E p \in Peers : RecvParked(p)
    \/ \E p \in Peers : RecvBlock(p)
    \/ \E p \in Peers : RecvPull(p)
    \/ \E p \in Peers : DrainDone(p)
    \/ \E p \in Peers : StartStage(p)
    \/ \E p \in Peers : SendThread(p)
    \/ \E q \in Peers, i \in 1 .. Cardinality(Peers) : RecvThreadPoll(q, i)
    \/ \E q \in Peers : RecvThreadAccept(q)

Spec == Init /\ [][Next]_vars

----------------------------------------------------------------------------
(* What the properties below speak of. *)

Tasks == {k \in Keys : k < grp.n}
Active(p) == p < grp.size
\* The stage peer p is running, or has just returned from.
CurStage(p) == IF pc[p] = "returned" THEN done[p] - 1 ELSE done[p]
\* The message task src produces as the i-th of messages() in stage st.
Msg(src, i, st) == [src |-> src, i |-> i, st |-> st]
Count(seq, x) == Cardinality({j \in DOMAIN seq : seq[j] = x})

\* The contract between the tasks of the group: every destination is a task of the
\* group, receive reports Eligible on the last of the messages addressed to the task
\* and not before, and a task is independent exactly if no message is addressed to it.
ContractHolds ==
    \A k \in Tasks :
        /\ \A i \in DOMAIN grp.dests[k] : grp.dests[k][i] \in Tasks
        /\ grp.need[k] = Indeg(grp.dests, k)
        /\ grp.indep[k] <=> (Indeg(grp.dests, k) = 0)

\* Every message addressed in stage st to task k is once in the inbox of k.
HasAllOnce(k, st) ==
    \A src \in Tasks : \A i \in DOMAIN grp.dests[src] :
        grp.dests[src][i] = k => Count(inbox[k], Msg(src, i, st)) = 1

\* What task k has received was addressed to k in the stage of its peer, and was
\* received once.
HasNoOther(k) ==
    \A j \in DOMAIN inbox[k] :
        LET m == inbox[k][j]
        IN  /\ m.src \in Tasks
            /\ m.i \in DOMAIN grp.dests[m.src]
            /\ grp.dests[m.src][m.i] = k
            /\ m.st = CurStage(grp.work[k])
            /\ Count(inbox[k], m) = 1

\* A task handed to the sink has received, once each, the messages addressed to it, and
\* no task has received anything else or anything twice.
DeliveredBeforeSink ==
    /\ \A p \in Peers : \A k \in Tasks :
          emitted[p][k] >= 1 => HasAllOnce(k, CurStage(p))
    /\ \A k \in Tasks : HasNoOther(k)

\* No task reports Eligible before the last of the messages addressed to it, and no
\* message is addressed to an independent task.
NoEarlyEligible ==
    \A k \in Tasks :
        /\ grp.need[k] >= Indeg(grp.dests, k)
        /\ grp.indep[k] => Indeg(grp.dests, k) = 0

C2_OneOutputPerTask ==
    \A p \in Peers :
        pc[p] = "returned" =>
            \A k \in Keys : emitted[p][k] = (IF k \in Owned(p) THEN 1 ELSE 0)

\* A peer with two tasks has returned from a stage in which it called recv.
C2_Witness ==
    \E p \in Peers :
        pc[p] = "returned" /\ Cardinality(Owned(p)) >= 2 /\ recvCalls[p] >= 1

\* The stamp the sender had when it called send with these bytes.
SentStamps(bytes) == {e.stamp : e \in {x \in BagToSet(sendLog) : x.bytes = bytes}}

\* C3: what recv returns to a peer whose stamp is t was sent at stamp t, in every
\* interleaving of the peers and their threads.
C3_StampIsolation ==
    \A p \in Peers :
        lastRecv[p] # << >> => SentStamps(lastRecv[p][1].bytes) = {lastRecv[p][1].at}

\* recv has returned a record to a peer that holds a parked record of another stamp.
C3_Witness ==
    \E p \in Peers :
        /\ lastRecv[p] # << >>
        /\ \E i \in DOMAIN tcpUndelivered[p] : tcpUndelivered[p][i].tag # time_stamp[p]

\* Every message addressed to a task of p comes from a task of p.
LocalOnly(p) ==
    \A src \in Tasks : \A i \in DOMAIN grp.dests[src] :
        grp.work[grp.dests[src][i]] = p => grp.work[src] = p

\* C4: on a peer whose tasks send only to each other and keep the contract (two tasks
\* writing to each other, three in a cycle), the loop over flow ends, in whatever order
\* flow yields the tasks, with every task handed to the sink and seen empty, so that
\* coordinate returns without a call of recv.
C4_OrderIndependence ==
    \A p \in Peers :
        (Active(p) /\ ContractHolds /\ LocalOnly(p) /\ pc[p] # "flow") =>
            /\ pc[p] \in {"drain", "returned"}
            /\ seen[p] = {}
            /\ \A k \in Owned(p) : emitted[p][k] = 1
            /\ recvCalls[p] = 0
            /\ pulls[p] = 0

\* Three tasks in the cycle 0 -> 1 -> 2 -> 0 on peer 0, which has returned.
C4_Witness ==
    /\ grp.n = 3
    /\ grp.dests = Ring(3, 1)
    /\ Owned(0) = {0, 1, 2}
    /\ ContractHolds
    /\ pc[0] = "returned"

\* C6: when coordinate has returned, seen and undelivered are both empty.
C6_NoLeaks ==
    \A p \in Peers :
        pc[p] = "returned" =>
            /\ seen[p] = {}
            /\ \A k \in Keys : undelivered[p][k] = << >>

\* A peer has returned from a stage in which tasks waited in seen for messages.
C6_Witness ==
    \E p \in Peers :
        /\ pc[p] = "returned"
        /\ recvCalls[p] >= 1
        /\ \E k \in Owned(p) : Len(inbox[k]) >= 1

\* The loop over flow of stage st has ended on peer p.
FlowDone(p, st) ==
    Active(p) /\ (st < done[p] \/ (st = done[p] /\ pc[p] \in {"drain", "recv", "panicked"}))

\* The calls of Communicator::send made with these bytes.
SendsOf(bytes) == {e \in BagToSet(sendLog) : e.bytes = bytes}

\* Number of messages the tasks of p address to tasks of other ranks in one stage.
NonLocal(p) ==
    Cardinality({x \in Owned(p) \X (1 .. NumTasks) :
                   /\ x[2] \in DOMAIN grp.dests[x[1]]
                   /\ grp.work[grp.dests[x[1]][x[2]]] # p})

\* Number of records with tag t in a channel.
Tagged(chan, t) == Cardinality({j \in DOMAIN chan : chan[j].tag = t})

\* C7: once the loop over flow has ended, the peer has called send exactly once, to
\* rank work(dest) with the encoding of (dest, msg), for each (dest, msg) of its tasks
\* with work(dest) other than its rank, never for one with work(dest) its rank, and
\* for nothing else; the records of the stage that its sender thread has written or
\* has yet to write are as many as its non-local messages.
C7_Routing ==
    /\ \A p \in Peers : \A st \in 0 .. (NumStages - 1) :
          FlowDone(p, st) =>
              /\ \A src \in Owned(p) : \A i \in DOMAIN grp.dests[src] :
                    LET dest  == grp.dests[src][i]
                        bytes == Encode(dest, Msg(src, i, st))
                    IN  IF grp.work[dest] # p
                        THEN /\ Cardinality(SendsOf(bytes)) = 1
                             /\ \A e \in SendsOf(bytes) :
                                   /\ CopiesIn(e, sendLog) = 1
                                   /\ e.from = p
                                   /\ e.to = grp.work[dest]
                        ELSE SendsOf(bytes) = {}
              /\ wrote[p][st] + Tagged(send_r[p], st) = NonLocal(p)
    /\ \A e \in BagToSet(sendLog) :
          /\ e.bytes.body.src \in Owned(e.from)
          /\ e.bytes.body.i \in DOMAIN grp.dests[e.bytes.body.src]
          /\ e.bytes.key = grp.dests[e.bytes.body.src][e.bytes.body.i]

\* The ring of 4 tasks on 2 peers, work(k) = k % 2: each peer has written 2 records of
\* the first stage, 4 in all.
C7_Witness ==
    /\ grp = Conforming(4, Ring(4, 1), [size |-> 2, work |-> WorkMod(2)])
    /\ wrote[0][0] = 2
    /\ wrote[1][0] = 2
    /\ wrote[2][0] = 0

\* C8: a task whose independent() is true has had no call of receive, in every order
\* of flow and whatever the other tasks address to it.
C8_IndependentNeverReceives ==
    \A k \in Tasks : grp.indep[k] => inbox[k] = << >>

\* The messages task k has received are those of the stage of its peer.
StageOnly(k) == \A j \in DOMAIN inbox[k] : inbox[k][j].st = CurStage(grp.work[k])

\* The first record of the current stamp in the undelivered queue of p, if there is one.
FirstCurrent(p) ==
    CHOOSE i \in DOMAIN tcpUndelivered[p] :
        /\ tcpUndelivered[p][i].tag = time_stamp[p]
        /\ \A j \in 1 .. (i - 1) : tcpUndelivered[p][j].tag # time_stamp[p]

\* C9: a record pulled from the pool with a tag other than the stamp is parked at the
\* end of the undelivered queue and not handed to any task; the tasks receive messages
\* of their own stage only; and a call of recv made when the queue holds a record of
\* the current stamp (after next_time_stamp, for a record parked with tag t+1) returns
\* the first such record and removes it, pulling nothing from the connection pool.
C9_StampReplay ==
    /\ [](\A k \in Tasks : StageOnly(k))
    /\ [][\A p \in Peers :
            /\ (pulls'[p] = pulls[p] + 1 /\ Head(recv_r[p]).tag # time_stamp[p]) =>
                  /\ tcpUndelivered'[p] = Append(tcpUndelivered[p], Head(recv_r[p]))
                  /\ lastRecv'[p] = lastRecv[p]
                  /\ inbox' = inbox
            /\ (/\ recvCalls'[p] = recvCalls[p] + 1
                /\ \E i \in DOMAIN tcpUndelivered[p] :
                      tcpUndelivered[p][i].tag = time_stamp[p]) =>
                  /\ lastRecv'[p] = << [bytes |-> tcpUndelivered[p][FirstCurrent(p)].message,
                                        at |-> time_stamp[p]] >>
                  /\ Len(tcpUndelivered'[p]) = Len(tcpUndelivered[p]) - 1
                  /\ pulls'[p] = pulls[p]
                  /\ recv_r'[p] = recv_r[p]]_vars

\* In its second stage a peer has got a message from recv, of that stage, and has
\* pulled nothing from the pool in that stage.
C9_Witness ==
    \E p \in Peers :
        /\ done[p] = 1
        /\ time_stamp[p] = 1
        /\ recvCalls[p] = 1
        /\ pulls[p] = 0
        /\ lastRecv[p] # << >>
        /\ lastRecv[p][1].at = 1
        /\ lastRecv[p][1].bytes.body.st = 1

\* The record carries the stamp its sender had at the call of send.
TaggedAsSent(from, rec) ==
    /\ SendsOf(rec.message) # {}
    /\ \A e \in SendsOf(rec.message) : e.from = from /\ e.stamp = rec.tag

\* C10: every record, in the channel of the sender thread, on a connection, in the
\* channel of the receiver thread or parked, carries as its tag the stamp its sender
\* had when it called send, whatever the sender's stamp has become since; and a send
\* made after n calls of next_time_stamp carries the stamp n.
C10_TaggedAtSend ==
    /\ \A p \in Peers : \A j \in DOMAIN send_r[p] : TaggedAsSent(p, send_r[p][j])
    /\ \A p, q \in Peers : \A j \in DOMAIN wire[<< p, q >>] :
          TaggedAsSent(p, wire[<< p, q >>][j])
    /\ \A q \in Peers : \A j \in DOMAIN recv_r[q] :
          \E p \in Peers : TaggedAsSent(p, recv_r[q][j])
    /\ \A q \in Peers : \A j \in DOMAIN tcpUndelivered[q] :
          \E p \in Peers : TaggedAsSent(p, tcpUndelivered[q][j])
    /\ \A e \in BagToSet(sendLog) : e.stamp = e.bytes.body.st

\* A record sent in the first stage is on a connection, and one still waits for the
\* sender thread, while the sender's stamp has moved on.
C10_Witness ==
    \E p, q \in Peers :
        /\ time_stamp[p] >= 1
        /\ \E j \in DOMAIN send_r[p] : send_r[p][j].tag = 0
        /\ \E j \in DOMAIN wire[<< p, q >>] : wire[<< p, q >>][j].tag = 0

----------------------------------------------------------------------------
(* Progress, for the groups that keep the contract. *)

LiveInit == Init /\ ContractHolds

\* The steps of the thread of peer p that runs coordinate, stage after stage.
MainThread(p) ==
    \/ Coordinate(p)
    \/ RecvParked(p)
    \/ RecvBlock(p)
    \/ RecvPull(p)
    \/ DrainDone(p)
    \/ StartStage(p)

\* The steps of the receiver thread of the pool of peer q.
RecvThread(q) ==
    \/ \E i \in 1 .. Cardinality(Peers) : RecvThreadPoll(q, i)
    \/ RecvThreadAccept(q)

\* Every thread that can take a step takes one in the end: the thread of each peer
\* that runs coordinate, and the sender thread and the receiver thread of its pool.
Fairness ==
    /\ \A p \in Peers : WF_vars(MainThread(p))
    /\ \A p \in Peers : WF_vars(SendThread(p))
    /\ \A q \in Peers : WF_vars(RecvThread(q))

LiveSpec == LiveInit /\ [][Next]_vars /\ Fairness

\* Peer p has returned from its last stage with each of its tasks handed to the sink.
Completed(p) ==
    /\ pc[p] = "returned"
    /\ done[p] = NumStages
    /\ \A k \in Keys : emitted[p][k] = (IF k \in Owned(p) THEN 1 ELSE 0)

\* C5: with the threads scheduled fairly, every peer of a group that keeps the
\* contract (the ring of 4 tasks with work(k) = k % 2 among them) completes every
\* stage, having handed to the sink exactly its own tasks; none waits in recv for ever.
C5_StageCompletes == <>[](\A p \in Peers : Active(p) => Completed(p))

\* The ring of 4 tasks on 2 peers: both peers have completed, with 2 tasks each.
C5_Witness ==
    /\ grp = Conforming(4, Ring(4, 1), [size |-> 2, work |-> WorkMod(2)])
    /\ \A p \in {0, 1} : Completed(p) /\ Cardinality(Owned(p)) = 2

----------------------------------------------------------------------------
(* The stamp. *)

\* C11: the stamp of a peer is the number of stages it has completed; it changes only
\* in the step in which coordinate returns, which is taken with seen empty and raises
\* it by exactly 1: no send, no recv and no step of a thread changes it, and a stage
\* that panics leaves it as it was.
C11_StampCountsStages ==
    /\ [](\A p \in Peers : time_stamp[p] = done[p])
    /\ [][\A p \in Peers :
            /\ time_stamp'[p] # time_stamp[p] =>
                  /\ pc[p] = "drain"
                  /\ seen[p] = {}
                  /\ pc'[p] = "returned"
                  /\ time_stamp'[p] = time_stamp[p] + 1
            /\ (pc[p] # "returned" /\ pc'[p] = "returned") =>
                  time_stamp'[p] = time_stamp[p] + 1]_vars

\* A peer has completed its stages, the last one with calls of recv, and its stamp is
\* their number.
C11_Witness ==
    \E p \in Peers :
        /\ pc[p] = "returned"
        /\ done[p] = NumStages
        /\ time_stamp[p] = NumStages
        /\ recvCalls[p] >= 1
        /\ \E k \in Owned(p) : inbox[k] # << >>

----------------------------------------------------------------------------
(* Framing. *)

\* The coordinator and its pool at rest.
AtRest ==
    /\ grp = Conforming(1, Silent, [size |-> 2, work |-> WorkZero(2)])
    /\ pc = [p \in Peers |-> "off"]
    /\ done = [p \in Peers |-> 0]
    /\ flow = [p \in Peers |-> {}]
    /\ seen = [p \in Peers |-> {}]
    /\ undelivered = [p \in Peers |-> [k \in Keys |-> << >>]]
    /\ inbox = [k \in Keys |-> << >>]
    /\ emitted = [p \in Peers |-> [k \in Keys |-> 0]]
    /\ time_stamp = [p \in Peers |-> 0]
    /\ tcpUndelivered = [p \in Peers |-> << >>]
    /\ send_r = [p \in Peers |-> << >>]
    /\ recv_r = [p \in Peers |-> << >>]
    /\ outStreams = [p \in Peers |-> {}]
    /\ backlog = [p \in Peers |-> << >>]
    /\ inStreams = [p \in Peers |-> << >>]
    /\ wire = [c \in Peers \X Peers |-> << >>]
    /\ sendLog = EmptyBag
    /\ wrote = [p \in Peers |-> [t \in 0 .. NumStages |-> 0]]
    /\ lastRecv = [p \in Peers |-> << >>]
    /\ pulls = [p \in Peers |-> 0]
    /\ recvCalls = [p \in Peers |-> 0]
    /\ messagesCalls = [k \in Keys |-> [calls |-> 0, late |-> 0]]
    /\ comm = "tcp"

FrameInit ==
    /\ AtRest
    /\ OrderIdle
    /\ NoFailure
    /\ PoolIdle
    /\ LaterIdle
    /\ framesSent \in RecordSeqs
    /\ toWrite = framesSent
    /\ writeStep = 0
    /\ stream = << >>
    /\ field = "none"
    /\ buffer = << >>
    /\ lenRead = 0
    /\ tagRead = 0
    /\ polled = << >>
    /\ received = << >>
    /\ nonBlocking = "None"

FrameNext ==
    \/ WriteAll
    \/ \E c \in 0 .. (UsizeBytes + MaxPayload) : Read(c)
    \/ PoolRecv

FrameSpec == FrameInit /\ [][FrameNext]_frameVars

\* What the receiving side has made of the stream so far.
Delivered == received \o polled

IsPrefix(a, b) == Len(a) <= Len(b) /\ a = SubSeq(b, 1, Len(a))

\* C12: the records the receiving side yields are the records sent, with the same
\* payload and tag, each once and in the order sent, however the reads split the bytes
\* of the stream; and once every byte written has been read, all of them have been
\* yielded.
C12_FramingRoundTrip ==
    /\ IsPrefix(Delivered, framesSent)
    /\ (toWrite = << >> /\ stream = << >>) => (field = "none" /\ Delivered = framesSent)

\* A record with an empty payload has been returned, and the tag of the next one, 258,
\* is half read.
C12_Witness ==
    /\ Len(framesSent) = 2
    /\ received = << framesSent[1] >>
    /\ framesSent[1].message = << >>
    /\ framesSent[2].message # << >>
    /\ framesSent[2].tag = 258
    /\ field = "tag"
    /\ Len(buffer) = 3

----------------------------------------------------------------------------
(* Order of the records on a connection. *)

OrderInit ==
    /\ AtRest
    /\ FrameIdle
    /\ NoFailure
    /\ PoolIdle
    /\ LaterIdle
    /\ mode \in {"Single", "OnePerSocket"}
    /\ sendChan = << >>
    /\ channels = [a \in Addresses |-> << >>]
    /\ sockets = {}
    /\ written = [a \in Addresses |-> << >>]
    /\ calls = [a \in Addresses |-> << >>]

OrderNext ==
    \/ \E a \in Addresses : OrderSend(a)
    \/ WriteSingle
    \/ Forward
    \/ \E a \in Addresses : SocketWrite(a)

OrderSpec == OrderInit /\ [][OrderNext]_orderVars

\* The messages for address a in the channel send_r, in order.
RECURSIVE Pending(_, _)
Pending(chan, a) ==
    IF chan = << >> THEN << >>
    ELSE (IF Head(chan).address = a THEN << Head(chan).message >> ELSE << >>)
         \o Pending(Tail(chan), a)

\* C13: with the single sender thread, and with one thread per socket, the records
\* written to the connection to an address, followed by those still in the channels
\* on their way to it, are the records of the send calls for that address in the
\* order of the calls: what is written is written in call order.
C13_PerDestinationOrder ==
    \A a \in Addresses :
        written[a] \o channels[a] \o Pending(sendChan, a) = calls[a]

\* One thread per socket: three calls, for addresses 1, 2, 1; everything is written.
C13_Witness ==
    /\ mode = "OnePerSocket"
    /\ sockets = {1, 2}
    /\ written[1] = << 1, 3 >>
    /\ written[2] = << 2 >>

----------------------------------------------------------------------------
(* Failure of the transport. *)

FailInit == Init /\ ContractHolds

\* The steps of the thread of p that runs coordinate, when peers can die. A read of a
\* connection whose other end has died gives Ok(0) or an error, which
\* read_bytes_into_non_blocking turns into None: the receiver thread goes on polling
\* and nothing changes.
FailMain(p) ==
    \/ (p \notin senderDown \/ ~SendsAway(p)) /\ Coordinate(p)
    \/ SendPanics(p)
    \/ RecvParked(p)
    \/ RecvBlock(p)
    \/ RecvPull(p)
    \/ DrainDone(p)
    \/ StartStage(p)

FailSender(p) ==
    \/ /\ p \notin senderDown
       /\ send_r[p] # << >>
       /\ Head(send_r[p]).address \notin dead
       /\ SendThread(p)
    \/ WriteFails(p)
    \/ WriteVoid(p)

FailReceiver(q) == q \notin dead /\ RecvThread(q)

FailNext ==
    \/ \E q \in Peers : Die(q)
    \/ \E p \in Peers : FailMain(p)
    \/ \E p \in Peers : FailSender(p)
    \/ \E q \in Peers : FailReceiver(q)

failAll == << vars, failVars >>

FailSpec ==
    /\ FailInit
    /\ [][FailNext]_failAll
    /\ \A p \in Peers : WF_failAll(FailMain(p))
    /\ \A p \in Peers : WF_failAll(FailSender(p))
    /\ \A q \in Peers : WF_failAll(FailReceiver(q))

\* The bytes are in some record of the sequence.
Holds(chan, bytes) == \E j \in DOMAIN chan : chan[j].message = bytes

\* Peer p waits, in the loop over seen, for a message of a task of a dead peer which
\* was not written before the peer died: the reads of that connection give records
\* no more.
Bereft(p) ==
    /\ p \notin dead
    /\ pc[p] \in {"drain", "recv"}
    /\ \E k \in seen[p] : \E src \in Tasks : \E i \in DOMAIN grp.dests[src] :
          /\ grp.dests[src][i] = k
          /\ grp.work[src] \in dead
          /\ Count(inbox[k], Msg(src, i, done[p])) = 0
          /\ LET bytes == Encode(k, Msg(src, i, done[p]))
             IN  /\ ~Holds(wire[<< grp.work[src], p >>], bytes)
                 /\ ~Holds(recv_r[p], bytes)
                 /\ ~Holds(tcpUndelivered[p], bytes)

\* C14: when a peer has died in mid-stage and a surviving peer waits for a message of
\* it that will not come, the stage of the surviving peer ends in a failure.
C14_FailureReported ==
    \A p \in Peers : Bereft(p) ~> (pc[p] = "panicked")

----------------------------------------------------------------------------
(* The two panics of coordinate. *)

\* In this step recv returns to peer p a message whose dest is not a key of seen.
GetsUnseen(p) ==
    /\ lastRecv'[p] # lastRecv[p]
    /\ lastRecv'[p] # << >>
    /\ Decode(lastRecv'[p][1].bytes)[1] \notin seen[p]

\* C15: in the loop over seen, a message whose dest is not a key of seen (a key that
\* flow never yielded, or a task already handed to the sink) makes the stage panic: no
\* task receives it, it is stored in neither undelivered queue, and the stamp is not
\* advanced, then or later.
C15_DrainPanic ==
    [][\A p \in Peers :
         /\ GetsUnseen(p) =>
               /\ pc'[p] = "panicked"
               /\ inbox' = inbox
               /\ emitted' = emitted
               /\ undelivered' = undelivered
               /\ Len(tcpUndelivered'[p]) <= Len(tcpUndelivered[p])
               /\ time_stamp'[p] = time_stamp[p]
         /\ pc[p] = "panicked" =>
               /\ pc'[p] = "panicked"
               /\ time_stamp'[p] = time_stamp[p]
               /\ done'[p] = done[p]]_vars

\* A peer has panicked in the loop over seen, on a message for a key not in seen.
C15_Witness ==
    \E p \in Peers :
        /\ pc[p] = "panicked"
        /\ seen[p] # {}
        /\ \A k \in Keys : undelivered[p][k] = << >>
        /\ lastRecv[p] # << >>
        /\ Decode(lastRecv[p][1].bytes)[1] \notin seen[p]
        /\ time_stamp[p] = done[p]

\* A message routed to a key of this peer is still stored in undelivered.
Stranded(p) == \E k \in Keys : undelivered[p][k] # << >>

\* C16: a message still stored in undelivered when flow is exhausted makes the stage
\* fail at the assertion: the peer goes from the loop over flow to the panic, with no
\* call of recv in the stage and with its stamp as it was.
C16_AssertionPanic ==
    /\ [](\A p \in Peers :
             Stranded(p) =>
                 /\ pc[p] = "panicked"
                 /\ recvCalls[p] = 0
                 /\ pulls[p] = 0
                 /\ lastRecv[p] = << >>
                 /\ time_stamp[p] = done[p])
    /\ [][\A p \in Peers :
            Stranded(p)' =>
                /\ pc[p] \in {"flow", "panicked"}
                /\ time_stamp'[p] = time_stamp[p]
                /\ pulls'[p] = pulls[p]
                /\ tcpUndelivered'[p] = tcpUndelivered[p]]_vars

\* A peer has panicked at the assertion, with a message stored for a key that its flow
\* did not yield, while a record that it never asks for waits in its pool.
C16_Witness ==
    \E p \in Peers :
        /\ pc[p] = "panicked"
        /\ \E k \in Keys \ Owned(p) : undelivered[p][k] # << >>
        /\ recv_r[p] # << >>
        /\ recvCalls[p] = 0

----------------------------------------------------------------------------
(* The calls of messages(). *)

\* Peer p is past its loop over flow in the current stage.
PastFlow(p) == pc[p] \in {"drain", "recv", "returned", "panicked"}

\* C17: in every stage messages() is called exactly once on each task drawn from flow,
\* whatever the order of flow and the routing, never on a task that is in seen or that
\* has been handed to the sink, and on no other task.
C17_MessagesOncePerStage ==
    \A k \in Keys :
        /\ messagesCalls[k].late = 0
        /\ messagesCalls[k].calls =
               (IF k \in Owned(grp.work[k]) /\ PastFlow(grp.work[k]) THEN 1 ELSE 0)

\* In its second stage a peer is in the drain loop with one of its tasks in seen and
\* another handed to the sink, each asked once for its messages.
C17_Witness ==
    \E p \in Peers : \E k, j \in Owned(p) :
        /\ done[p] = 1
        /\ pc[p] = "drain"
        /\ k \in seen[p]
        /\ emitted[p][j] = 1
        /\ messagesCalls[k].calls = 1
        /\ messagesCalls[j].calls = 1

----------------------------------------------------------------------------
(* The thread pool. *)

\* A pool as ThreadPool::new leaves it, on a machine with a core for every worker
\* asked for: n workers, each with its channel and its thread, the index at 0.
PoolInit ==
    /\ AtRest
    /\ FrameIdle
    /\ OrderIdle
    /\ NoFailure
    /\ CloseIdle
    /\ ExecIdle
    /\ MeshIdle
    /\ LoopIdle
    /\ CommIdle
    /\ pool = "up"
    /\ core_affinity = TRUE
    /\ core_ids = MaxWorkers
    /\ requested \in 0 .. MaxWorkers
    /\ \E n \in {WorkerCount(requested, core_affinity, core_ids)} :
           /\ workers = [i \in 0 .. (n - 1) |-> [sender |-> TRUE, handle |-> TRUE]]
           /\ receiver = [i \in 0 .. (n - 1) |-> << >>]
           /\ thread = [i \in 0 .. (n - 1) |-> "running"]
           /\ ran = [i \in 0 .. (n - 1) |-> << >>]
    /\ current_worker_id = 0
    /\ spawned = << >>
    /\ dropping = 0

PoolNext ==
    \/ spawn
    \/ \E worker_id \in Hints : spawn_on(worker_id)
    \/ \E i \in DOMAIN workers : WorkerRun(i)
    \/ \E i \in DOMAIN workers : WorkerExit(i)
    \/ DropPool
    \/ WorkerDropSender
    \/ WorkerDropJoin

poolAll == << vars, poolAside, poolVars >>  \* every variable

PoolSpec == PoolInit /\ [][PoolNext]_poolAll

\* The jobs that a call of spawn_on has put on a channel.
Accepted == {j \in DOMAIN spawned : spawned[j].sent}

\* Job j is in the channel of worker w or has been run by its thread.
JobOn(j, w) ==
    \/ \E x \in DOMAIN receiver[w] : receiver[w][x] = j
    \/ \E x \in DOMAIN ran[w] : ran[w][x] = j

\* The calls before the j-th that gave no worker index.
Unhinted(j) == {x \in DOMAIN spawned : x < j /\ spawned[x].worker_id = None}

\* C18: on a pool of n workers the job of the k-th call (from 0) of spawn or
\* spawn_on(None) is on worker k mod n, so that when the number of such calls is a
\* multiple of n every worker has the same number of these jobs.
C18_RoundRobin ==
    /\ \A j \in Accepted :
           spawned[j].worker_id = None => JobOn(j, Cardinality(Unhinted(j)) % num_threads)
    /\ \A w \in DOMAIN workers :
           LET total == Cardinality(Unhinted(Len(spawned) + 1) \cap Accepted)
           IN  total % num_threads = 0 =>
                   Cardinality({j \in Accepted : spawned[j].worker_id = None /\ JobOn(j, w)})
                       * num_threads = total

\* Four jobs given without an index to two workers, the second round after the first.
C18_Witness ==
    /\ num_threads = 2
    /\ Cardinality(Unhinted(Len(spawned) + 1)) = 4
    /\ \A w \in DOMAIN workers :
           Cardinality({j \in Accepted : spawned[j].worker_id = None /\ JobOn(j, w)}) = 2
    /\ \E w \in DOMAIN workers : ran[w] # << >>

\* The calls that gave a worker index and whose job was sent.
Hinted == {j \in Accepted : spawned[j].worker_id # None}

\* C19: the job of spawn_on(Some(i), job) is on worker i and on no other, and the
\* round-robin index depends on the calls without an index alone: however many jobs were
\* given with an index, the next job without one goes where it would have gone.
C19_HintedSpawn ==
    /\ \A j \in Hinted : \A w \in DOMAIN workers :
           JobOn(j, w) <=> (w = spawned[j].worker_id[1])
    /\ num_threads > 0 =>
           current_worker_id
               = Cardinality(Unhinted(Len(spawned) + 1) \cap Accepted) % num_threads

\* After one job without an index, four jobs given with Some(2) have all been run by
\* worker 2 of three, and the index is where the first job left it.
C19_Witness ==
    /\ num_threads = 3
    /\ Cardinality(Hinted) = 4
    /\ \A j \in Hinted : spawned[j].worker_id = Some(2)
    /\ Len(ran[2]) = 4
    /\ spawned[1].worker_id = None
    /\ current_worker_id = 1

\* Worker i has been joined: its handle has been taken and join has returned.
Joined(i) == ~workers[i].handle

----------------------------------------------------------------------------
(* ThreadPool::new *)

MaxThreads == 8
MaxCores == 6

\* Before the call: any build, any machine with at least one core.
NewInit ==
    /\ AtRest
    /\ FrameIdle
    /\ OrderIdle
    /\ NoFailure
    /\ PoolIdle
    /\ CloseIdle
    /\ ExecIdle
    /\ MeshIdle
    /\ LoopIdle
    /\ CommIdle
    /\ requested = 0
    /\ core_ids \in 1 .. MaxCores
    /\ core_affinity \in BOOLEAN

NewNext == \E n \in 0 .. MaxThreads : new(n)

NewSpec == NewInit /\ [][NewNext]_poolAll

\* C21: ThreadPool::new(n) makes min(n, cpu_count) workers, and num_threads() returns
\* that number, for every n.
C21_MinOfThreadsAndCores ==
    pool = "up" => num_threads = Min(requested, core_ids)

----------------------------------------------------------------------------
(* ConnectionPool: its threads and its drop. *)

MaxQueued == 2
MaxArrived == 2

\* The number of records one pool is given to send.
MaxAccepted == 3

\* What no step of this pool touches.
closeAside == << vars, frameVars, orderVars, failVars, poolVars, newVars, execVars,
                meshVars, loopVars, commVars >>

\* ConnectionPool::from_listener has returned: both threads run, nothing is sent.
CloseInit ==
    /\ AtRest
    /\ FrameIdle
    /\ OrderIdle
    /\ NoFailure
    /\ PoolIdle
    /\ NewIdle
    /\ ExecIdle
    /\ MeshIdle
    /\ LoopIdle
    /\ CommIdle
    /\ alive = TRUE
    /\ send_s = TRUE
    /\ queued = 0
    /\ send_thread = "running"
    /\ recv_thread = "test"
    /\ incoming = "empty"
    /\ arrived = 0
    /\ remote = "up"
    /\ dropStep = "live"
    /\ sends = 0
    /\ writes = 0

\* ConnectionPool::send by the owner of the pool.
CloseSend ==
    /\ dropStep = "live"
    /\ send_thread = "running"
    /\ queued < MaxQueued
    /\ sends < MaxAccepted
    /\ queued' = queued + 1
    /\ sends' = sends + 1
    /\ UNCHANGED << alive, send_s, send_thread, recv_thread, incoming, arrived, remote,
                    dropStep, writes >>
    /\ UNCHANGED closeAside

\* The sender thread takes a record and connects and writes: to a peer that is up the
\* three write_all succeed; to a dead one they succeed into the void or one returns an
\* error, and the unwrap panics.
SenderWrites ==
    /\ send_thread = "running"
    /\ queued > 0
    /\ queued' = queued - 1
    /\ \/ /\ writes' = writes + 1
          /\ UNCHANGED send_thread
       \/ /\ remote = "dead"
          /\ send_thread' = "panicked"
          /\ UNCHANGED writes
    /\ UNCHANGED << alive, send_s, recv_thread, incoming, arrived, remote, dropStep,
                    sends >>
    /\ UNCHANGED closeAside

\* As SenderExits, for a thread that leaves its loop as soon as the channel is closed,
\* with what is still in it.
SenderExitsClosed ==
    /\ send_thread = "running"
    /\ ~send_s
    /\ send_thread' = "exited"
    /\ UNCHANGED << alive, send_s, queued, recv_thread, incoming, arrived, remote,
                    dropStep >>
    /\ UNCHANGED << sends, writes >>
    /\ UNCHANGED closeAside

\* `for (address, message, tag) in send_r` ends: the channel is empty and closed.
SenderExits ==
    /\ send_thread = "running"
    /\ queued = 0
    /\ ~send_s
    /\ send_thread' = "exited"
    /\ UNCHANGED << alive, send_s, queued, recv_thread, incoming, arrived, remote,
                    dropStep >>
    /\ UNCHANGED << sends, writes >>
    /\ UNCHANGED closeAside

\* `while keep_receiving.load(..)`
ReceiverTests ==
    /\ recv_thread = "test"
    /\ recv_thread' = IF alive THEN "poll" ELSE "exited"
    /\ UNCHANGED << alive, send_s, queued, send_thread, incoming, arrived, remote,
                    dropStep >>
    /\ UNCHANGED << sends, writes >>
    /\ UNCHANGED closeAside

\* Where the receiver thread is after the first read of poll: with no byte read,
\* read_usize_non_blocking returns None and the turn of the loop ends; with some, it
\* is in the loops of read_bytes_into until the whole record is read.
FirstRead(bytes) == IF bytes = "empty" THEN "test" ELSE "read"

\* Self::poll(stream), up to its first read; then listener.accept().
ReceiverPolls ==
    /\ recv_thread = "poll"
    /\ recv_thread' = FirstRead(incoming)
    /\ UNCHANGED << alive, send_s, queued, send_thread, incoming, arrived, remote,
                    dropStep >>
    /\ UNCHANGED << sends, writes >>
    /\ UNCHANGED closeAside

\* The loops `while cursor < buffer.len() { cursor += read(..).unwrap_or(0) }` come to
\* their end once the record is there; with less, and at the end of the stream of a
\* dead peer, every read adds 0 and they go on.
ReceiverReads ==
    /\ recv_thread = "read"
    /\ incoming = "whole"
    /\ incoming' = "empty"
    /\ recv_thread' = "test"
    /\ UNCHANGED << alive, send_s, queued, send_thread, arrived, remote, dropStep >>
    /\ UNCHANGED << sends, writes >>
    /\ UNCHANGED closeAside

\* The sender thread of the remote peer: the first write_all of a record.
RemoteBegins ==
    /\ remote = "up"
    /\ incoming = "empty"
    /\ arrived < MaxArrived
    /\ incoming' = "partial"
    /\ arrived' = arrived + 1
    /\ UNCHANGED << alive, send_s, queued, send_thread, recv_thread, remote, dropStep >>
    /\ UNCHANGED << sends, writes >>
    /\ UNCHANGED closeAside

\* The remaining write_all of that record.
RemoteEnds ==
    /\ remote = "up"
    /\ incoming = "partial"
    /\ incoming' = "whole"
    /\ UNCHANGED << alive, send_s, queued, send_thread, recv_thread, arrived, remote,
                    dropStep >>
    /\ UNCHANGED << sends, writes >>
    /\ UNCHANGED closeAside

\* The process of the remote peer dies.
RemoteDies ==
    /\ remote = "up"
    /\ remote' = "dead"
    /\ UNCHANGED << alive, send_s, queued, send_thread, recv_thread, incoming, arrived,
                    dropStep >>
    /\ UNCHANGED << sends, writes >>
    /\ UNCHANGED closeAside

\* Drop for ConnectionPool up to its first join: alive.swap(false), send_s.take().
DropBegins ==
    /\ dropStep = "live"
    /\ alive' = FALSE
    /\ send_s' = FALSE
    /\ dropStep' = "join_send"
    /\ UNCHANGED << queued, send_thread, recv_thread, incoming, arrived, remote >>
    /\ UNCHANGED << sends, writes >>
    /\ UNCHANGED closeAside

\* self.send_thread.take().unwrap().join().unwrap(): join returns when the thread has
\* ended, and the unwrap panics if it ended in a panic.
DropJoinsSender ==
    /\ dropStep = "join_send"
    /\ send_thread # "running"
    /\ dropStep' = IF send_thread = "panicked" THEN "panicked" ELSE "join_recv"
    /\ UNCHANGED << alive, send_s, queued, send_thread, recv_thread, incoming, arrived,
                    remote >>
    /\ UNCHANGED << sends, writes >>
    /\ UNCHANGED closeAside

\* self.recv_thread.take().unwrap().join().unwrap()
DropJoinsReceiver ==
    /\ dropStep = "join_recv"
    /\ recv_thread = "exited"
    /\ dropStep' = "returned"
    /\ UNCHANGED << alive, send_s, queued, send_thread, recv_thread, incoming, arrived,
                    remote >>
    /\ UNCHANGED << sends, writes >>
    /\ UNCHANGED closeAside

\* The steps of each thread.
CloseOwner == CloseSend \/ DropBegins \/ DropJoinsSender \/ DropJoinsReceiver
CloseSender == SenderWrites \/ SenderExits
CloseReceiver == ReceiverTests \/ ReceiverPolls \/ ReceiverReads
CloseRemote == RemoteBegins \/ RemoteEnds

CloseNext == CloseOwner \/ CloseSender \/ CloseReceiver \/ CloseRemote \/ RemoteDies

closeAll == << closeAside, closeVars >>

\* Every thread that can take a step takes one in the end, the pool is dropped in the
\* end, and a remote peer that is up ends the record it has begun. Nothing says that
\* the remote peer stays up.
CloseSpec ==
    /\ CloseInit
    /\ [][CloseNext]_closeAll
    /\ WF_closeAll(DropBegins)
    /\ WF_closeAll(DropJoinsSender)
    /\ WF_closeAll(DropJoinsReceiver)
    /\ WF_closeAll(CloseSender)
    /\ WF_closeAll(CloseReceiver)
    /\ WF_closeAll(RemoteEnds)

\* C22: the drop of a ConnectionPool returns in the end, with its sender thread and its
\* receiver thread ended.
C22_DropJoinsThreads ==
    (dropStep # "live") ~>
        (dropStep = "returned" /\ send_thread = "exited" /\ recv_thread = "exited")

----------------------------------------------------------------------------
(* send and the network. *)

\* The step of peer p that holds every send of a stage, in a world where peers die.
Sending(p) ==
    \/ (p \notin senderDown \/ ~SendsAway(p)) /\ Coordinate(p)
    \/ SendPanics(p)

\* The number of calls of send in the log.
Sent == BagCardinality(sendLog)

\* C23: send waits for nothing. A peer at its loop over flow can take the step with
\* all its sends in every state of the network and of the other peers, dead ones
\* included; the step leaves every connection and every stream as it was, and what was
\* sent is at the end of the channel to the sender thread.
C23_SendNeverBlocks ==
    /\ [](\A p \in Peers : pc[p] = "flow" => ENABLED Sending(p))
    /\ [][\A p \in Peers :
            (pc[p] = "flow" /\ pc'[p] = "drain") =>
                /\ Len(send_r'[p]) = Len(send_r[p]) + (Sent' - Sent)
                /\ SubSeq(send_r'[p], 1, Len(send_r[p])) = send_r[p]
                /\ UNCHANGED << wire, outStreams, backlog, inStreams, recv_r, wrote >>]_failAll

\* A peer is through its loop over flow with a record on the channel for a peer that is
\* dead, to which no connection is open, another record still unwritten before it.
C23_Witness ==
    \E p \in Peers :
        /\ pc[p] = "drain"
        /\ Len(send_r[p]) >= 2
        /\ outStreams[p] = {}
        /\ \E i \in DOMAIN send_r[p] : send_r[p][i].address \in dead

----------------------------------------------------------------------------
(* read_usize_non_blocking *)

\* The step is a read of the receiver thread while read_usize_non_blocking runs or may
\* be called, and the number of bytes the read takes from the stream.
ReadsUsize == field \in {"none", "len"} /\ UNCHANGED << toWrite, writeStep, received >>
Taken == Len(stream) - Len(stream')

\* C24: read_usize_non_blocking returns None with no byte taken from the stream, or the
\* value of the next 8 bytes, little-endian, with those 8 bytes taken and no other;
\* after a read of 1 to 7 bytes it does not return, it goes on reading.
C24_AllOrNothing ==
    [][ReadsUsize =>
         /\ nonBlocking' = "None" =>
                (field = "none" /\ field' = "none" /\ Taken = 0 /\ buffer' = << >>)
         /\ field' = "none" => (nonBlocking' = "None" /\ Taken = 0)
         /\ field' = "tag" =>
                /\ nonBlocking' = "Some"
                /\ Len(buffer) + Taken = UsizeBytes
                /\ lenRead' = FromLeBytes(buffer \o SubSeq(stream, 1, Taken))
                /\ buffer' = << >>
         /\ field' = "len" =>
                /\ nonBlocking' = "reading"
                /\ buffer' = buffer \o SubSeq(stream, 1, Taken)
                /\ Len(buffer') \in 1 .. (UsizeBytes - 1)]_frameVars

\* After an earlier record, the call has taken 3 bytes of a len and has not returned;
\* the rest of the len is in the stream.
C24_Witness ==
    /\ field = "len"
    /\ nonBlocking = "reading"
    /\ Len(buffer) = 3
    /\ Len(stream) >= UsizeBytes - 3
    /\ polled # << >>

----------------------------------------------------------------------------
(* The executors within one process: coordinate with the null communicator. *)

\* The groups, with the work function of execute and execute_thread_pool (every key to
\* rank 0) and the size of the null communicator.
NullGroups ==
    LET w    == [size |-> 1, work |-> WorkZero(1)]
        good == UNION {{Conforming(n, d, w) : d \in Topologies(n)} : n \in 1 .. NumTasks}
    IN  good \cup {Early(g) : g \in good} \cup {Hungry(g) : g \in good}
             \cup {Aloof(g) : g \in good} \cup {Stray(g) : g \in good}

\* execute or execute_thread_pool has made its NullCommunicator and calls coordinate.
NullInit ==
    /\ grp \in NullGroups
    /\ comm = "null"
    /\ pc = [p \in Peers |-> IF p < grp.size THEN "flow" ELSE "off"]
    /\ done = [p \in Peers |-> 0]
    /\ flow = [p \in Peers |-> Owned(p)]
    /\ seen = [p \in Peers |-> {}]
    /\ undelivered = [p \in Peers |-> [k \in Keys |-> << >>]]
    /\ inbox = [k \in Keys |-> << >>]
    /\ emitted = [p \in Peers |-> [k \in Keys |-> 0]]
    /\ time_stamp = [p \in Peers |-> 0]
    /\ tcpUndelivered = [p \in Peers |-> << >>]
    /\ send_r = [p \in Peers |-> << >>]
    /\ recv_r = [p \in Peers |-> << >>]
    /\ outStreams = [p \in Peers |-> {}]
    /\ backlog = [p \in Peers |-> << >>]
    /\ inStreams = [p \in Peers |-> << >>]
    /\ wire = [c \in Peers \X Peers |-> << >>]
    /\ sendLog = EmptyBag
    /\ wrote = [p \in Peers |-> [t \in 0 .. NumStages |-> 0]]
    /\ lastRecv = [p \in Peers |-> << >>]
    /\ pulls = [p \in Peers |-> 0]
    /\ recvCalls = [p \in Peers |-> 0]
    /\ messagesCalls = [k \in Keys |-> [calls |-> 0, late |-> 0]]
    /\ FrameIdle
    /\ OrderIdle
    /\ NoFailure
    /\ PoolIdle
    /\ LaterIdle

\* The calls of coordinate of one executor after another, each with its own
\* NullCommunicator.
NullNext ==
    \/ Coordinate(0)
    \/ RecvNull(0)
    \/ DrainDone(0)
    \/ StartStage(0)

NullSpec == NullInit /\ [][NullNext]_vars

\* C25: with every key routed to rank 0 and the null communicator, nothing is sent and
\* nothing encoded; recv is called only with a task left in seen once flow is through,
\* and the call panics: the stage fails, and it does not wait.
C25_NullNeverUsed ==
    /\ sendLog = EmptyBag
    /\ send_r[0] = << >>
    /\ pc[0] # "recv"
    /\ lastRecv[0] = << >>
    /\ recvCalls[0] <= 1
    /\ recvCalls[0] = 1 => (pc[0] = "panicked" /\ seen[0] # {} /\ flow[0] = {})
    /\ (pc[0] = "drain" /\ seen[0] # {}) => ENABLED RecvNull(0)

\* A stage in which a task was left in seen has ended in the panic of recv, and a
\* stage of another kind has been through before it.
C25_Witness ==
    /\ pc[0] = "panicked"
    /\ recvCalls[0] = 1
    /\ seen[0] # {}
    /\ \E k \in Owned(0) : emitted[0][k] = 1

----------------------------------------------------------------------------
(* The executors and the iterators they return. *)

\* The most tasks that one call of an executor hands to its sink.
MaxSunk == 3

\* The most threads asked of the pool that an executor is given.
MaxPoolSize == 2

\* The executors called: execute, execute_thread_pool and execute_comm.
Executors == {"execute", "execute_thread_pool", "execute_comm"}

\* An executor has made its channel and calls coordinate; the pool it was given, if
\* any, was made by ThreadPool::new.
ExecInit ==
    /\ AtRest
    /\ FrameIdle
    /\ OrderIdle
    /\ NoFailure
    /\ CloseIdle
    /\ MeshIdle
    /\ LoopIdle
    /\ CommIdle
    /\ executor \in Executors
    /\ call = "coordinate"
    /\ sunk = 0
    /\ eligible = << >>
    /\ valued = << >>
    /\ yielded = << >>
    /\ iter = "none"
    /\ \/ /\ executor \in {"execute", "execute_comm"}
          /\ PoolIdle
          /\ NewIdle
       \/ /\ executor \in {"execute_thread_pool", "execute_comm"}
          /\ pool = "up"
          /\ core_affinity = TRUE
          /\ core_ids = MaxWorkers
          /\ requested \in 0 .. MaxPoolSize
          /\ \E n \in {WorkerCount(requested, core_affinity, core_ids)} :
                 /\ workers = [i \in 0 .. (n - 1) |-> [sender |-> TRUE, handle |-> TRUE]]
                 /\ receiver = [i \in 0 .. (n - 1) |-> << >>]
                 /\ thread = [i \in 0 .. (n - 1) |-> "running"]
                 /\ ran = [i \in 0 .. (n - 1) |-> << >>]
          /\ current_worker_id = 0
          /\ spawned = << >>
          /\ dropping = 0

\* As SentBySink, for an execute whose sink calls value() as execute_comm's does.
SentBySinkValued(exec, task) == [task |-> task, value |-> exec \in Executors]

\* What the sink of an executor without a pool sends to the channel: execute sends the
\* task, eligible_sink.send(a); execute_comm sends eligible_sink.send(a.value()).
SentBySink(exec, task) == [task |-> task, value |-> exec # "execute"]

\* coordinate hands the next eligible task to the sink.
Sink(worker_hint) ==
    /\ call = "coordinate"
    /\ sunk < MaxSunk
    /\ sunk' = sunk + 1
    /\ IF pool = "none"
       THEN /\ \E item \in {SentBySink(executor, sunk + 1)} :
                  /\ eligible' = Append(eligible, item)
                  /\ valued' = IF item.value
                               THEN Append(valued, [task |-> item.task, at |-> "sink"])
                               ELSE valued
            /\ UNCHANGED << call, poolVars >>
       ELSE /\ SpawnOn(worker_hint)
            /\ call' = IF pool' = "panicked" THEN "panicked" ELSE call
            /\ UNCHANGED << eligible, valued >>
    /\ UNCHANGED << executor, yielded, iter >>
    /\ UNCHANGED << vars, frameVars, orderVars, failVars, newVars, closeVars, meshVars, loopVars, commVars >>

\* The job of a pooled sink on the thread of worker i:
\* eligible_sink.send(a.value()).unwrap(), and its clone of the sender is dropped.
JobRuns(i) ==
    /\ RunJob(i)
    /\ valued' = Append(valued, [task |-> Head(receiver[i]), at |-> "worker"])
    /\ eligible' = Append(eligible, [task |-> Head(receiver[i]), value |-> TRUE])
    /\ UNCHANGED << executor, call, sunk, yielded, iter >>
    /\ UNCHANGED << vars, frameVars, orderVars, failVars, newVars, closeVars, meshVars, loopVars, commVars >>

\* coordinate returns and the executor returns the iterator over eligible_source; its
\* own eligible_sink is dropped as it returns.
Return ==
    /\ call = "coordinate"
    /\ call' = "returned"
    /\ iter' = "open"
    /\ UNCHANGED << executor, sunk, eligible, valued, yielded >>
    /\ UNCHANGED << vars, frameVars, orderVars, failVars, poolVars, newVars, closeVars,
                    meshVars, loopVars, commVars >>

\* As Senders, for an executor whose own sender outlives its return.
SendersKept == IF call = "panicked" THEN 0 ELSE 1

\* The senders of the channel that are alive: the executor's own, until it returns,
\* and the clone in each job that has not run yet.
Senders ==
    LET RECURSIVE Clones(_)
        Clones(S) == IF S = {} THEN 0
                     ELSE LET i == CHOOSE x \in S : TRUE
                          IN  Len(receiver[i]) + Clones(S \ {i})
    IN  (IF call = "coordinate" THEN 1 ELSE 0) + Clones(DOMAIN receiver)

\* next() on the returned iterator, with an item in the channel: execute's iterator
\* maps the task to its value, peer.value(); the others yield the value as it is.
IterNext ==
    /\ iter = "open"
    /\ eligible # << >>
    /\ yielded' = Append(yielded, Head(eligible).task)
    /\ valued' = IF Head(eligible).value THEN valued
                 ELSE Append(valued, [task |-> Head(eligible).task, at |-> "iterator"])
    /\ eligible' = Tail(eligible)
    /\ UNCHANGED << executor, call, sunk, iter >>
    /\ UNCHANGED << vars, frameVars, orderVars, failVars, poolVars, newVars, closeVars,
                    meshVars, loopVars, commVars >>

\* next() with the channel empty and every sender gone: None.
IterEnd ==
    /\ iter = "open"
    /\ eligible = << >>
    /\ Senders = 0
    /\ iter' = "ended"
    /\ UNCHANGED << executor, call, sunk, eligible, valued, yielded >>
    /\ UNCHANGED << vars, frameVars, orderVars, failVars, poolVars, newVars, closeVars,
                    meshVars, loopVars, commVars >>

\* The owner of the pool drops it once the executor has let go of its borrow.
ExecDropPool ==
    /\ call # "coordinate"
    /\ DropPool

ExecNext ==
    \/ \E worker_hint \in Hints : Sink(worker_hint)
    \/ \E i \in DOMAIN workers : JobRuns(i)
    \/ Return
    \/ IterNext
    \/ IterEnd
    \/ ExecDropPool
    \/ \E i \in DOMAIN workers : WorkerExit(i)
    \/ WorkerDropSender
    \/ WorkerDropJoin

execAll == << closeAside, closeVars >>  \* every variable

ExecSpec == ExecInit /\ [][ExecNext]_execAll

\* The tasks of a sequence of channel items or of calls of value().
TasksOf(items) == [j \in DOMAIN items |-> items[j].task]

\* C26 as stated: in execute, the sink has called value() on every task it was handed,
\* and what it sent to the channel is the value.
C26_ValueInSink ==
    executor = "execute" =>
        /\ \A j \in 1 .. sunk : \E c \in DOMAIN valued :
               valued[c].task = j /\ valued[c].at = "sink"
        /\ \A c \in DOMAIN eligible : eligible[c].value

\* C26: in execute, the sink sends the task itself to the channel at the moment
\* coordinate hands it over, in that order; value() is called by the returned iterator,
\* on each task as it is pulled, and so not before coordinate has returned.
C26_ValueInIterator ==
    executor = "execute" =>
        /\ yielded \o TasksOf(eligible) = [j \in 1 .. sunk |-> j]
        /\ \A c \in DOMAIN eligible : ~eligible[c].value
        /\ TasksOf(valued) = yielded
        /\ \A c \in DOMAIN valued : valued[c].at = "iterator"
        /\ call = "coordinate" => valued = << >>

\* execute has returned with two tasks in the channel, and its iterator has pulled one.
C26_Witness ==
    /\ executor = "execute"
    /\ call = "returned"
    /\ sunk >= 2
    /\ Len(yielded) = 1
    /\ eligible # << >>

\* The jobs that the pool took.
Dispatched == {j \in DOMAIN spawned : spawned[j].sent}

\* A job is still in the channel of some worker.
JobPending == \E i \in DOMAIN receiver : receiver[i] # << >>

\* C27: with a pool, the executor can return whatever the jobs are doing; value() is
\* called on the workers; the iterator yields the values in the order the jobs ended,
\* no task twice; it cannot end while a job is pending, it can end once the channel is
\* empty and no job is pending, and when it has ended it has yielded every dispatched
\* task exactly once.
C27_PooledOutput ==
    pool # "none" =>
        /\ call = "coordinate" => ENABLED Return
        /\ \A c \in DOMAIN valued : valued[c].at = "worker"
        /\ yielded \o TasksOf(eligible) = TasksOf(valued)
        /\ \A a, b \in DOMAIN yielded : yielded[a] = yielded[b] => a = b
        /\ {yielded[c] : c \in DOMAIN yielded} \subseteq Dispatched
        /\ (iter = "open" /\ JobPending) => ~ENABLED IterEnd
        /\ (iter = "open" /\ ~JobPending /\ eligible = << >>) => ENABLED IterEnd
        /\ iter = "ended" =>
               /\ {yielded[c] : c \in DOMAIN yielded} = Dispatched
               /\ ~JobPending

\* The iterator of a pooled executor has ended after three values, the first of them
\* not the value of the first task.
C27_Witness ==
    /\ pool # "none"
    /\ iter = "ended"
    /\ Len(yielded) >= 3
    /\ yielded[1] # 1

----------------------------------------------------------------------------
(* Groups that exchange nothing, and peers without tasks. *)

\* Every task of the group is independent() and its messages() is empty.
AllIndependent ==
    /\ grp.dests = Silent
    /\ \A k \in Keys : k < grp.n => grp.indep[k]

\* The peers that run coordinate.
Running == {p \in Peers : p < grp.size}

\* C28: in a group of independent tasks without messages, no peer sends (or encodes),
\* no peer calls recv (or decodes), no task's receive is called, no stage panics, a
\* peer past its flow has handed each of its tasks to the sink exactly once and no
\* other, and it can leave the drain loop at once.
C28_IndependentGroup ==
    AllIndependent =>
        /\ sendLog = EmptyBag
        /\ \A k \in Keys : inbox[k] = << >>
        /\ \A p \in Running :
               /\ send_r[p] = << >>
               /\ recvCalls[p] = 0
               /\ lastRecv[p] = << >>
               /\ pc[p] \in {"flow", "drain", "returned"}
               /\ pc[p] = "flow" => \A k \in Keys : emitted[p][k] = 0
               /\ pc[p] \in {"drain", "returned"} =>
                      \A k \in Keys : emitted[p][k] = IF k \in Owned(p) THEN 1 ELSE 0
               /\ pc[p] = "drain" => (seen[p] = {} /\ ENABLED DrainDone(p))

\* A group of four independent tasks on two peers, each with two of them, has been
\* through a stage on both.
C28_Witness ==
    /\ AllIndependent
    /\ grp.n = NumTasks
    /\ \A p \in Running : Cardinality(Owned(p)) >= 2 /\ pc[p] = "returned"

\* The peers that run coordinate with an empty flow.
Taskless == {p \in Running : Owned(p) = {}}

\* C29: a peer whose flow is empty never calls recv, never sends, never panics; once in
\* the drain loop it can leave it at once; and its stamp is the number of stages it
\* has finished.
C29_EmptyFlow ==
    \A p \in Taskless :
        /\ recvCalls[p] = 0
        /\ pulls[p] = 0
        /\ send_r[p] = << >>
        /\ \A m \in BagToSet(sendLog) : m.from # p
        /\ pc[p] \in {"flow", "drain", "returned"}
        /\ pc[p] = "drain" => (seen[p] = {} /\ ENABLED DrainDone(p))
        /\ time_stamp[p] = done[p]

\* A peer without tasks has finished two stages while a message of the other peer
\* sits in its receive queue.
C29_Witness ==
    \E p \in Taskless :
        /\ pc[p] = "returned"
        /\ done[p] = NumStages
        /\ recv_r[p] # << >>

----------------------------------------------------------------------------
(* meshing: block_dims and the functions it is built on. *)

\* The largest count and the largest num_dims tried.
MaxCount == 200
MaxDims == 3

\* The width of usize in the model, wide enough for MaxCount.
WordBits == 8

\* usize::MAX
UsizeMax == 2 ^ WordBits - 1

\* The sum in integer_square_root wraps at the width of usize.
Wrapping(x) == x % (UsizeMax + 1)

\* As Newton, for a loop that stops after its first pass.
NewtonOnce(n, x0, x1) == IF x1 < x0 THEN x1 ELSE x0

\* The while loop of integer_square_root.
RECURSIVE Newton(_, _, _)
Newton(n, x0, x1) ==
    IF x1 < x0 THEN Newton(n, x1, Wrapping(x1 + n \div x1) \div 2) ELSE x0

integer_square_root(n) ==
    LET x0 == n \div 2
    IN  IF x0 = 0 THEN n ELSE Newton(n, x0, Wrapping(x0 + n \div x0) \div 2)

\* As Divide, with `if` in the place of `while`: a factor is taken out once.
RECURSIVE DivideOnce(_, _)
DivideOnce(s, i) ==
    IF s.n % i = 0 THEN [n |-> s.n \div i, result |-> Append(s.result, i)]
    ELSE s

\* `while n % i == 0 { result.push(i); n /= i }`, from s = (n, result); n is not 0.
RECURSIVE Divide(_, _)
Divide(s, i) ==
    IF s.n % i = 0 THEN Divide([n |-> s.n \div i, result |-> Append(s.result, i)], i)
    ELSE s

\* `while i <= integer_square_root(n) { ...; i += 2 }`
RECURSIVE OddFactors(_, _)
OddFactors(s, i) ==
    IF i <= integer_square_root(s.n) THEN OddFactors(Divide(s, i), i + 2) ELSE s

\* prime_factors(n) for n >= 1 (on 0 its first loop does not end).
prime_factors(n) ==
    LET s == OddFactors(Divide([n |-> n, result |-> << >>], 2), 3)
    IN  IF s.n > 2 THEN Append(s.result, s.n) ELSE s.result

\* chunks(num_dims).map(|chunk| chunk[0]).product() of a slice: the product of its
\* elements at the indexes i, i + num_dims, ...
RECURSIVE ChunkHeads(_, _, _)
ChunkHeads(slice, i, step) ==
    IF i > Len(slice) THEN 1 ELSE slice[i] * ChunkHeads(slice, i + step, step)

\* factors[dim..] panics when dim is beyond the length of factors.
SliceFails(factors, dim) == dim > Len(factors)

\* block_dims(count, num_dims): the closure is run for dim = 0, 1, ... and the first
\* slice that fails ends the call in a panic.
block_dims(count, num_dims) ==
    LET factors == prime_factors(count)
    IN  IF factors # << >> /\ \E dim \in 0 .. (num_dims - 1) : SliceFails(factors, dim)
        THEN [status |-> "panicked", dims |-> << >>]
        ELSE [status |-> "returned",
              dims |-> [d \in 1 .. num_dims |->
                           IF factors = << >> THEN 1
                           ELSE ChunkHeads(SubSeq(factors, d, Len(factors)), 1, num_dims)]]

\* A caller is about to call block_dims(count, num_dims).
MeshInit ==
    /\ AtRest
    /\ FrameIdle
    /\ OrderIdle
    /\ NoFailure
    /\ PoolIdle
    /\ NewIdle
    /\ CloseIdle
    /\ ExecIdle
    /\ LoopIdle
    /\ CommIdle
    /\ \/ /\ function = "block_dims"
          /\ args \in [count : 1 .. MaxCount, num_dims : 1 .. MaxDims]
       \/ /\ function = "prime_factors"
          /\ args \in [count : 1 .. MaxCount, num_dims : {1}]
       \/ /\ function = "integer_square_root"
          /\ args \in [count : 0 .. UsizeMax, num_dims : {1}]
    /\ outcome = [status |-> "none", dims |-> << >>]

\* The call of block_dims.
BlockDims ==
    /\ function = "block_dims"
    /\ outcome.status = "none"
    /\ outcome' = block_dims(args.count, args.num_dims)
    /\ UNCHANGED << function, args >>
    /\ UNCHANGED << vars, frameVars, orderVars, failVars, poolVars, newVars, closeVars,
                    execVars, loopVars, commVars >>

\* The call of prime_factors: it returns its Vec.
PrimeFactors ==
    /\ function = "prime_factors"
    /\ outcome.status = "none"
    /\ outcome' = [status |-> "returned", dims |-> prime_factors(args.count)]
    /\ UNCHANGED << function, args >>
    /\ UNCHANGED << vars, frameVars, orderVars, failVars, poolVars, newVars, closeVars,
                    execVars, loopVars, commVars >>

\* The call of integer_square_root: it returns its number, kept as a list of one.
IntegerSquareRoot ==
    /\ function = "integer_square_root"
    /\ outcome.status = "none"
    /\ outcome' = [status |-> "returned", dims |-> << integer_square_root(args.count) >>]
    /\ UNCHANGED << function, args >>
    /\ UNCHANGED << vars, frameVars, orderVars, failVars, poolVars, newVars, closeVars,
                    execVars, loopVars, commVars >>

MeshNext == BlockDims \/ PrimeFactors \/ IntegerSquareRoot

MeshSpec == MeshInit /\ [][MeshNext]_execAll

\* The product of the elements of a sequence.
RECURSIVE ProductOf(_)
ProductOf(seq) == IF seq = << >> THEN 1 ELSE Head(seq) * ProductOf(Tail(seq))

\* C30: a call of block_dims with count >= 1 and num_dims >= 1 returns, and what it
\* returns is a list of num_dims positive integers whose product is count; it returns
\* [10, 10, 2] for (200, 3) and [5, 1] for (5, 2).
C30_BlockDims ==
    (function = "block_dims" /\ outcome.status # "none") =>
        /\ outcome.status = "returned"
        /\ Len(outcome.dims) = args.num_dims
        /\ \A d \in DOMAIN outcome.dims : outcome.dims[d] >= 1
        /\ ProductOf(outcome.dims) = args.count
        /\ args = [count |-> 200, num_dims |-> 3] => outcome.dims = << 10, 10, 2 >>
        /\ args = [count |-> 5, num_dims |-> 2] => outcome.dims = << 5, 1 >>

\* n is a prime number.
IsPrime(n) == n >= 2 /\ \A d \in 2 .. (n - 1) : n % d # 0

\* C31: prime_factors(n) with n >= 1 returns a list of primes in non-decreasing order
\* whose product is n; for n = 1 the list is empty.
C31_PrimeFactors ==
    (function = "prime_factors" /\ outcome.status # "none") =>
        /\ outcome.status = "returned"
        /\ \A j \in DOMAIN outcome.dims : IsPrime(outcome.dims[j])
        /\ \A j \in DOMAIN outcome.dims : j > 1 => outcome.dims[j - 1] <= outcome.dims[j]
        /\ ProductOf(outcome.dims) = args.count
        /\ args.count = 1 => outcome.dims = << >>

\* prime_factors has returned a list with a repeated factor of 2, a repeated odd factor
\* and a last factor larger than both.
C31_Witness ==
    /\ function = "prime_factors"
    /\ outcome.status = "returned"
    /\ Len(outcome.dims) = 5
    /\ outcome.dims[1] = outcome.dims[2]
    /\ outcome.dims[3] = outcome.dims[4]
    /\ outcome.dims[2] < outcome.dims[3]
    /\ outcome.dims[4] < outcome.dims[5]

\* C32: integer_square_root(n) returns, for every n of the width of usize, the r with
\* r * r <= n and n < (r + 1) * (r + 1).
C32_IntegerSquareRoot ==
    (function = "integer_square_root" /\ outcome.status # "none") =>
        /\ outcome.status = "returned"
        /\ Len(outcome.dims) = 1
        /\ outcome.dims[1] * outcome.dims[1] <= args.count
        /\ args.count < (outcome.dims[1] + 1) * (outcome.dims[1] + 1)

\* integer_square_root has returned the root of usize::MAX, which is not a square.
C32_Witness ==
    /\ function = "integer_square_root"
    /\ outcome.status = "returned"
    /\ args.count = UsizeMax
    /\ outcome.dims[1] * outcome.dims[1] < args.count

----------------------------------------------------------------------------
(* coordinate: the loop over flow, one task at a time. *)

\* The most tasks a flow yields.
MaxFlow == 3

\* The tasks that flow may yield as its id-th: any key; no message, one or two, to one
\* key; independent, or with a receive that reports Eligible once the task holds
\* `need` messages, one or two.
NewTasks(id) ==
    {a \in [id : {id}, key : FlowKeys, need : {1, 2}, indep : BOOLEAN, box : {<< >>},
            dests : {[j \in 1 .. n |-> d] : n \in 0 .. 2, d \in FlowKeys}] :
        a.indep => a.need = 1}

\* a.receive(data): the task keeps the message.
TaskReceive(a, data) == [a EXCEPT !.box = Receive(@, data)]

\* The Status that the call of receive returned: Eligible or not.
TaskEligible(a) == Len(a.box) >= a.need

\* Entry::Occupied: the task in seen receives the message; on Eligible it is removed
\* and handed to the sink.
LoopDeliver(s, dest, data) ==
    LET a == TaskReceive(s.seen[dest][1], data)
    IN  IF TaskEligible(a)
        THEN [s EXCEPT !.seen[dest] = << >>, !.sunk = Append(@, a)]
        ELSE [s EXCEPT !.seen[dest] = << a >>]

\* As LoopRoute, for a loop that drops a message whose key is not in seen.
LoopRouteDrops(s, dest, data) ==
    IF s.seen[dest] # << >> THEN LoopDeliver(s, dest, data) ELSE s

\* One (dest, data) of a.messages(), every key being local.
LoopRoute(s, dest, data) ==
    IF s.seen[dest] # << >>
    THEN LoopDeliver(s, dest, data)
    ELSE [s EXCEPT !.undelivered[dest] = Append(@, data)]

\* for (dest, data) in a.messages()
RECURSIVE LoopMessages(_, _, _)
LoopMessages(s, a, i) ==
    IF i > Len(a.dests) THEN s
    ELSE LoopMessages(LoopRoute(s, a.dests[i], [src |-> a.id, i |-> i]), a, i + 1)

\* As ReceiveAny, for a loop that passes every stored message to receive.
RECURSIVE ReceiveAll(_, _)
ReceiveAll(a, messages) ==
    IF messages = << >> THEN [a |-> a, eligible |-> FALSE, rest |-> << >>]
    ELSE LET t == ReceiveAll(TaskReceive(a, Head(messages)), Tail(messages))
         IN  [t EXCEPT !.eligible = @ \/ TaskEligible(TaskReceive(a, Head(messages)))]

\* messages.into_iter().any(|m| a.receive(m).is_eligible()): receive is called on the
\* stored messages in order up to the first Eligible; the rest is dropped with the Vec.
RECURSIVE ReceiveAny(_, _)
ReceiveAny(a, messages) ==
    IF messages = << >> THEN [a |-> a, eligible |-> FALSE, rest |-> << >>]
    ELSE LET b == TaskReceive(a, Head(messages))
         IN  IF TaskEligible(b) THEN [a |-> b, eligible |-> TRUE, rest |-> Tail(messages)]
             ELSE ReceiveAny(b, Tail(messages))

\* As SeenInsert, for a map that keeps the task it holds and drops the new one.
SeenInsertKeeps(s, a) ==
    IF s.seen[a.key] = << >> THEN [s EXCEPT !.seen[a.key] = << a >>]
    ELSE [s EXCEPT !.lost = Append(@, a)]

\* seen.insert(a.key(), a): the task that the map held under the key is returned by
\* insert and dropped.
SeenInsert(s, a) == [s EXCEPT !.seen[a.key] = << a >>, !.lost = @ \o s.seen[a.key]]

\* The body of `for mut a in flow` for the task a.
LoopBody(s, a) ==
    LET s1 == LoopMessages(s, a, 1)
        found == s1.undelivered[a.key]
        t  == ReceiveAny(a, found)
        s2 == [s1 EXCEPT !.undelivered[a.key] = << >>,
                         !.unread = @ \o t.rest,
                         !.last = << [id |-> a.id, key |-> a.key, found |-> found] >>,
                         !.keys = Append(@, a.key)]
    IN  IF t.eligible \/ a.indep
        THEN [s2 EXCEPT !.sunk = Append(@, t.a)]
        ELSE SeenInsert(s2, t.a)

\* coordinate is called on a peer that owns every key.
LoopInit ==
    /\ AtRest
    /\ FrameIdle
    /\ OrderIdle
    /\ NoFailure
    /\ PoolIdle
    /\ NewIdle
    /\ CloseIdle
    /\ ExecIdle
    /\ MeshIdle
    /\ CommIdle
    /\ loop = NewLoop
    /\ loopPc = "loop"

\* flow yields a task.
Draw(a) ==
    /\ loopPc = "loop"
    /\ Len(loop.keys) < MaxFlow
    /\ loop' = LoopBody(loop, a)
    /\ UNCHANGED loopPc
    /\ UNCHANGED << vars, frameVars, orderVars, failVars, poolVars, newVars, closeVars,
                    execVars, meshVars, commVars >>

\* flow is exhausted: assert!(undelivered.is_empty()).
FlowEnds ==
    /\ loopPc = "loop"
    /\ loopPc' = IF \A k \in FlowKeys : loop.undelivered[k] = << >> THEN "drain"
                 ELSE "panicked"
    /\ UNCHANGED loop
    /\ UNCHANGED << vars, frameVars, orderVars, failVars, poolVars, newVars, closeVars,
                    execVars, meshVars, commVars >>

LoopNext ==
    \/ \E a \in NewTasks(Len(loop.keys) + 1) : Draw(a)
    \/ FlowEnds

LoopSpec == LoopInit /\ [][LoopNext]_execAll

\* The elements of a sequence.
Range(seq) == {seq[j] : j \in DOMAIN seq}

\* The tasks drawn so far, wherever they are now: in seen, handed to the sink, dropped.
InSeen == UNION {Range(loop.seen[k]) : k \in FlowKeys}
Drawn == InSeen \cup Range(loop.sunk) \cup Range(loop.lost)

\* The messages that some task was given through receive.
Received == UNION {Range(a.box) : a \in Drawn}

UniqueKeys == \A i, j \in DOMAIN loop.keys : loop.keys[i] = loop.keys[j] => i = j

\* The messages that the tasks drawn so far have addressed to key d, after the task with
\* that key was drawn.
LateFor(d) ==
    UNION {{[src |-> a.id, i |-> i] : i \in {i \in DOMAIN a.dests : a.dests[i] = d}} :
           a \in {a \in Drawn : \E j \in 1 .. (a.id - 1) : loop.keys[j] = d}}

\* The late messages that found their task gone from seen: those it was not given.
Stale(d) == {m \in LateFor(d) : m \notin Received}

Ids(tasks) == {tasks[j].id : j \in DOMAIN tasks}

\* C35: a task drawn with the key of a task still in seen, and not eligible itself,
\* takes its place; the task replaced is dropped: it is handed to the sink neither
\* then nor later, and the step raises no error.
C35_DuplicateKey ==
    /\ [](Ids(loop.lost) \cap Ids(loop.sunk) = {})
    /\ [](\A a \in Range(loop.lost) :
              /\ ~TaskEligible(a)
              /\ \A b \in InSeen : b.id # a.id
              /\ \E j \in (a.id + 1) .. Len(loop.keys) : loop.keys[j] = a.key)
    /\ [][\A k \in FlowKeys :
              (/\ loop.seen[k] # << >>
               /\ loop.seen[k][1].id \notin Ids(loop'.sunk)
               /\ loop'.keys = Append(loop.keys, k)
               /\ Len(loop'.keys) \notin Ids(loop'.sunk))
              => /\ loop'.seen[k] # << >>
                 /\ loop'.seen[k][1].id = Len(loop'.keys)
                 /\ Ids(loop'.lost) = Ids(loop.lost) \cup {loop.seen[k][1].id}
                 /\ loopPc' = "loop"]_loopVars

\* A task was replaced in seen by a second of its key, the second was handed to the
\* sink, and the stage has passed its assertion.
C35_Witness ==
    /\ loopPc = "drain"
    /\ \E a \in Range(loop.lost) : \E b \in Range(loop.sunk) : b.key = a.key /\ b.id > a.id

----------------------------------------------------------------------------
(* TcpCommunicator: recv and next_time_stamp, called in any order. *)

\* The most records that reach the pool, and the highest stamp and tag.
MaxArrivals == 4
MaxStamp == 2

\* A communicator and its caller.
CommInit ==
    /\ AtRest
    /\ FrameIdle
    /\ OrderIdle
    /\ NoFailure
    /\ PoolIdle
    /\ NewIdle
    /\ CloseIdle
    /\ ExecIdle
    /\ MeshIdle
    /\ LoopIdle
    /\ communicator = NewCommunicator

\* The receiver thread of the pool has read a record off a connection; its message is
\* numbered by its arrival, its tag is whatever the remote peer stamped.
Arrives(tag) ==
    /\ Len(communicator.pulled) + Len(communicator.incoming) < MaxArrivals
    /\ communicator' = [communicator EXCEPT !.incoming =
          Append(@, [message |-> Len(communicator.pulled) + Len(@) + 1, tag |-> tag])]
    /\ UNCHANGED << vars, frameVars, orderVars, failVars, poolVars, newVars, closeVars,
                    execVars, meshVars, loopVars >>

\* TcpCommunicator::recv is called: a record of the current stamp in undelivered is
\* removed and returned, or the call enters its loop.
RecvCalled ==
    /\ communicator.call = "idle"
    /\ LET index == Position(communicator.undelivered, communicator.time_stamp, 1)
       IN  communicator' =
               IF index # 0
               THEN [communicator EXCEPT
                        !.undelivered = RemoveAt(@, index),
                        !.returned = Append(@, communicator.undelivered[index])]
               ELSE [communicator EXCEPT !.call = "loop"]
    /\ UNCHANGED << vars, frameVars, orderVars, failVars, poolVars, newVars, closeVars,
                    execVars, meshVars, loopVars >>

\* One turn of the loop of recv: connections.recv() yields a record, which is pushed
\* to undelivered if its tag is not the stamp and returned otherwise.
RecvTurn ==
    /\ communicator.call = "loop"
    /\ communicator.incoming # << >>
    /\ LET rec == Head(communicator.incoming)
       IN  communicator' =
               IF TagDiffers(rec.tag, communicator.time_stamp)
               THEN [communicator EXCEPT !.incoming = Tail(@),
                                         !.pulled = Append(@, rec),
                                         !.undelivered = Append(@, rec)]
               ELSE [communicator EXCEPT !.incoming = Tail(@),
                                         !.pulled = Append(@, rec),
                                         !.returned = Append(@, rec),
                                         !.call = "idle"]
    /\ UNCHANGED << vars, frameVars, orderVars, failVars, poolVars, newVars, closeVars,
                    execVars, meshVars, loopVars >>

\* TcpCommunicator::next_time_stamp, which takes &mut self and so runs between calls
\* of recv.
NextStamp ==
    /\ communicator.call = "idle"
    /\ communicator.time_stamp < MaxStamp
    /\ communicator' = [communicator EXCEPT !.time_stamp = NextTimeStamp(@)]
    /\ UNCHANGED << vars, frameVars, orderVars, failVars, poolVars, newVars, closeVars,
                    execVars, meshVars, loopVars >>

CommNext ==
    \/ \E tag \in 0 .. MaxStamp : Arrives(tag)
    \/ RecvCalled
    \/ RecvTurn
    \/ NextStamp

CommSpec == CommInit /\ [][CommNext]_execAll

\* The place of a record in a sequence that holds it once.
PlaceIn(seq, rec) == CHOOSE j \in DOMAIN seq : seq[j] = rec

\* C36: every record pulled from the pool has been returned once or is in undelivered
\* once, never both, nothing else is returned or held, and two records of one tag are
\* returned in the order in which they were pulled.
C36_NoLossNoDuplicate ==
    /\ Range(communicator.pulled) =
           Range(communicator.returned) \cup Range(communicator.undelivered)
    /\ Range(communicator.returned) \cap Range(communicator.undelivered) = {}
    /\ Len(communicator.pulled) =
           Len(communicator.returned) + Len(communicator.undelivered)
    /\ \A i, j \in DOMAIN communicator.returned :
           (i < j /\ communicator.returned[i].tag = communicator.returned[j].tag) =>
               PlaceIn(communicator.pulled, communicator.returned[i])
                   < PlaceIn(communicator.pulled, communicator.returned[j])

\* Two records of a later stamp were parked and, the stamp raised, returned from
\* undelivered while a third record is still held there.
C36_Witness ==
    /\ Len(communicator.returned) >= 3
    /\ communicator.undelivered # << >>
    /\ \E i \in DOMAIN communicator.returned :
           /\ i > 1
           /\ communicator.returned[i].tag = communicator.returned[i - 1].tag
           /\ communicator.returned[i].message < communicator.returned[1].message

\* The records in undelivered whose tag is below the stamp.
Outdated == {rec \in Range(communicator.undelivered) : rec.tag < communicator.time_stamp}

\* C40: a record in undelivered with a tag below the stamp was never returned, and no
\* step takes it out of undelivered or returns it.
C40_OutdatedStays ==
    /\ [](Outdated \cap Range(communicator.returned) = {})
    /\ [][Outdated \subseteq Outdated' /\
          \A rec \in Outdated : PlaceIn(communicator.undelivered', rec)
                                    <= PlaceIn(communicator.undelivered, rec)]_commVars

\* A record tagged below the stamp is parked, and recv has since returned a record
\* from undelivered and one from the pool.
C40_Witness ==
    /\ communicator.time_stamp = MaxStamp
    /\ Outdated # {}
    /\ \E rec \in Outdated :
           \E a, b \in Range(communicator.returned) :
               /\ a.message > rec.message
               /\ b.message > rec.message
               /\ a.tag # b.tag

----------------------------------------------------------------------------
(* ThreadPool: what becomes of the jobs that an executor gives it. *)

\* The number of places of a sequence that hold x.
Times(seq, x) == Cardinality({c \in DOMAIN seq : seq[c] = x})

\* The sum of f over the workers of a set.
RECURSIVE OverWorkers(_, _)
OverWorkers(f, S) ==
    IF S = {} THEN 0
    ELSE LET i == CHOOSE x \in S : TRUE IN f[i] + OverWorkers(f, S \ {i})

\* How often job j has been run, and how often it waits in a channel.
Runs(j) == OverWorkers([i \in DOMAIN workers |-> Times(ran[i], j)], DOMAIN workers)
Waits(j) == OverWorkers([i \in DOMAIN workers |-> Times(receiver[i], j)], DOMAIN workers)

----------------------------------------------------------------------------
(* ThreadPool and the executors: a worker index past the end of the pool. *)

\* The last call of spawn_on gave an index that no worker of the pool has.
PastTheEnd(spawns) ==
    /\ spawns # << >>
    /\ spawns[Len(spawns)].worker_id # None
    /\ spawns[Len(spawns)].worker_id[1] >= num_threads

\* The tasks whose value() has been called.
Valued == {valued[c].task : c \in DOMAIN valued}

\* C38: a call of spawn_on with Some(i), i >= num_threads(), panics: the job is sent to
\* no worker and current_worker_id is as it was. The pooled executors give the hint of
\* the task as it is, so the panic is the executor's: coordinate hands no further task to
\* the sink, the executor never returns its iterator, and the task is never run.
C38_HintPastTheEnd ==
    /\ [][(Len(spawned') = Len(spawned) + 1 /\ PastTheEnd(spawned'))
              => /\ ~spawned'[Len(spawned')].sent
                 /\ pool' = "panicked"
                 /\ receiver' = receiver
                 /\ current_worker_id' = current_worker_id
                 /\ call' = "panicked"]_execAll
    /\ []((pool # "none" /\ PastTheEnd(spawned))
              => /\ call = "panicked"
                 /\ iter = "none"
                 /\ Len(spawned) \notin Valued
                 /\ \A i \in DOMAIN workers : ~JobOn(Len(spawned), i)
                 /\ \A worker_hint \in Hints : ~ENABLED Sink(worker_hint))

\* On a pool of two workers the third task gave Some(2): the two jobs before it have
\* been run, one by each worker, the index has moved for the one without a hint, and
\* the pool has been dropped by the unwinding.
C38_Witness ==
    /\ num_threads = MaxPoolSize
    /\ Len(spawned) = MaxSunk
    /\ PastTheEnd(spawned)
    /\ spawned[1].worker_id = None
    /\ current_worker_id = 1
    /\ \A i \in DOMAIN workers : Len(ran[i]) = 1
    /\ pool = "dropped"

----------------------------------------------------------------------------
(* ConnectionPool: what becomes of the records it was given when it is dropped. *)

\* C39: when the drop of a ConnectionPool has returned, every record that send put in
\* the channel has been written, all three write_all returning Ok, and the channel is
\* empty; the sender thread leaves its loop only with the channel empty, and the drop
\* passes its join only then. (A write that fails is a panic of the sender thread, and
\* then the drop does not return: it panics at the join.)
C39_DrainedAtDrop ==
    /\ [](dropStep = "returned" => (writes = sends /\ queued = 0 /\ send_thread = "exited"))
    /\ [](send_thread = "exited" => (writes = sends /\ queued = 0))
    /\ [](send_thread = "running" => sends = writes + queued)
    /\ [][dropStep' = "join_recv" => (writes = sends /\ queued = 0)]_closeAll

\* Three records were given to a pool with room for two in its channel, all three
\* have been written, and the drop has returned.
C39_Witness ==
    /\ dropStep = "returned"
    /\ sends = MaxAccepted
    /\ writes = MaxAccepted

====
